---- MODULE Spec2Model ----
(***************************************************************************)
(* Enemy behaviour core of the FPS game: the Enemy entity (construction,   *)
(* type configuration, update tick, damage and death), the EnemyManager    *)
(* that spawns and ticks enemies, and the AISystem / WasmInterface         *)
(* behaviour-tree evaluation.                                              *)
(*                                                                         *)
(* Numbers.  Health, damage and point values are integers (every table     *)
(* value and every scaled value used here is integral).  Times are in      *)
(* hundredths of a second, so attackRate 0.5 s is 50.  The difficulty      *)
(* multiplier is in percent.  Positions are one coordinate (x), in         *)
(* thousandths of a unit.                                                  *)
(***************************************************************************)
EXTENDS Integers, Sequences, FiniteSets, TLC

VARIABLES
  enemies,        \* EnemyManager.enemies: sequence of Enemy objects
  nextId,         \* identity of the next Enemy object constructed
  enemiesKilled,  \* gameEngine.playerMetrics.enemiesKilled
  events,         \* 'enemyKilled' notifications emitted through gameEngine.emitEvent
  timers,         \* pending setTimeout callbacks scheduled by Enemy.die (enemy ids)
  lastCall,       \* the last operation called and the exception that left it ("none" if it returned)
  bossSpawned,    \* EnemyManager.bossSpawned
  calls           \* number of EnemyManager and Enemy calls made so far

enemyVars ==
  <<enemies, nextId, enemiesKilled, events, timers, lastCall, bossSpawned, calls>>

VARIABLES
  wasm,              \* the WasmInterface instance: isLoaded, wasmModule, enemyFactory, ...
  aiWasmInterface,   \* AISystem.wasmInterface is set (its initWasm() has resolved)
  behaviorTrees,     \* AISystem.behaviorTrees: entity ids that have a tree
  behaviorContexts,  \* AISystem.behaviorContexts: entity id -> BehaviorContext
  aiCall,            \* the last AISystem call: its inputs and what the caller observed
  aiCalls            \* number of AISystem calls made so far

aiVars == <<wasm, aiWasmInterface, behaviorTrees, behaviorContexts, aiCall, aiCalls>>

VARIABLES
  wasmInstance,           \* wasm-loader: the singleton instance exists
  initializationPromise,  \* wasm-loader: an _initWasm() is in progress
  waiters,                \* the callers awaiting the promise of the _initWasm() in progress
  initRuns,               \* number of WasmInterface.init() runs started
  initCompleted,          \* number of _initWasm() runs that have completed
  lastOutcome,            \* how the last completed WasmInterface.init() ended
  loaderCalls             \* number of initWasm() calls made so far

loaderVars ==
  <<wasmInstance, initializationPromise, waiters, initRuns, initCompleted, lastOutcome,
    loaderCalls>>

VARIABLES
  physWasmInterface,   \* PhysicsSystem.wasmInterface is set
  physGameEngine,      \* PhysicsSystem.gameEngine is set
  physEntities,        \* gameEngine.entities that have a mesh and a velocity
  wasmPhysicsSystem,   \* WasmInterface._wasmPhysicsSystem has been created
  physCall,            \* the last physics call: its inputs and what the caller observed
  physCalls            \* number of physics calls made so far

physVars ==
  <<physWasmInterface, physGameEngine, physEntities, wasmPhysicsSystem, physCall, physCalls>>

VARIABLES
  aiGameEngine,   \* AISystem.gameEngine is set
  level,          \* gameEngine.level is set
  pathCall        \* the last AISystem.findPath call and what it returned or raised

pathVars == <<aiGameEngine, level, pathCall>>

VARIABLES
  enemyManagerSet,   \* gameEngine.enemyManager is set
  netCall            \* the enemy the last removal or network message named

netVars == <<enemyManagerSet, netCall>>

VARIABLES
  removedFromScene   \* ids of the enemies whose mesh the death timer took out of the scene

lifeVars == <<removedFromScene>>

VARIABLES
  players,              \* MultiplayerServer.players, in insertion order
  serverEnemies,        \* MultiplayerServer.enemies, in insertion order
  projectiles,          \* MultiplayerServer.projectiles, in insertion order
  enemyIdCounter,       \* MultiplayerServer.enemyIdCounter
  projectileIdCounter,  \* MultiplayerServer.projectileIdCounter
  attackLog,            \* per enemy: time ticked in range without a break, and its attacks then
  hits,                 \* the damage calls the projectiles made in the last tick
  serverCall,           \* the last handler or tick of the server
  serverEvents          \* the number of socket messages handled so far

serverVars ==
  <<players, serverEnemies, projectiles, enemyIdCounter, projectileIdCounter, attackLog,
    hits, serverCall, serverEvents>>

VARIABLES
  cooldownSlots   \* per entity: the values cooldown_1 .. cooldown_10 of its behavior context

coolVars == <<cooldownSlots>>

VARIABLES
  alertLog   \* the last alertNearbyEnemies call: the spotter and who got onPlayerHeard

alertVars == <<alertLog>>

VARIABLES
  constructed,     \* number of WasmInterface objects constructed by the loader
  initsInFlight,   \* number of WasmInterface.init() runs that have started and not ended
  resolvedTo       \* per caller: the instance its initWasm() resolved to (0: none yet)

singletonVars == <<constructed, initsInFlight, resolvedTo>>

VARIABLES
  lastSpawn   \* the last spawnEnemy(): what getRandomEnemyType() returned, and the difficulty

spawnVars == <<lastSpawn>>

VARIABLES
  isRunning,        \* GameEngine.isRunning
  pendingFrames,    \* gameLoop callbacks handed to requestAnimationFrame and not yet run
  gameOverShown,    \* the game over menu is the current menu
  lastLoopCall,     \* the last call into the game loop
  loopCalls         \* number of start / stop / gameOver / restart calls so far

loopVars == <<isRunning, pendingFrames, gameOverShown, lastLoopCall, loopCalls>>

\* the components modelled last, and the ones modelled before them
laterVars == <<lifeVars, serverVars, coolVars, alertVars, singletonVars, spawnVars, loopVars>>
earlierVars == <<aiVars, loaderVars, physVars, pathVars, netVars>>

\* what the actions of one component leave alone
nonEnemyVars == <<aiVars, loaderVars, physVars, pathVars, netVars, laterVars>>
nonAIVars == <<enemyVars, loaderVars, physVars, pathVars, netVars, laterVars>>

vars == <<enemyVars, aiVars, loaderVars, physVars, pathVars, netVars, laterVars>>

----------------------------------------------------------------------------
(* Bounds of the model *)

\* calls of the EnemyManager and of Enemy.takeDamage in one behaviour
MaxCalls == 3

\* EnemyManager.maxEnemies and bossSpawnThreshold
maxEnemies == 10
bossSpawnThreshold == 20

\* the alert radius of EnemyManager.alertNearbyEnemies, in units
alertRadius == 15

----------------------------------------------------------------------------
(* Inputs *)

\* deltaTime of a frame in hundredths of a second; GameEngine.gameLoop caps it at 0.1 s
DeltaTimes == {10}

\* PlayerMetrics.getEnemyHealthMultiplier() = 0.7 + 0.6 * difficultyFactor, in percent:
\* between 82 and 118 (difficultyFactor is clamped to [0.2, 0.8]), 100 after reset
DifficultyPct == {90, 100}

\* x of a spawn point, in thousandths of a unit (radius 20 circle)
SpawnPointsX == {20000}

\* damage amounts handed to takeDamage (non-negative)
DamageAmounts == {0, 30, 600}

(* The `source` argument of takeDamage: undefined (WeaponSystem's          *)
(* projectile hit), a position vector (PlayerController's hitscan passes   *)
(* camera.position), or an entity with a mesh (the Player; isPlayer).      *)
NoSource == [kind |-> "none", pos |-> 0]
Sources == {NoSource, [kind |-> "position", pos |-> 3000], [kind |-> "entity", pos |-> 3000]}
NullTarget == [kind |-> "null", pos |-> 0]

Call(op, error) == [op |-> op, error |-> error]

----------------------------------------------------------------------------
(* EnemyTypes table *)

EnemyTypes ==
  [ GRUNT  |-> [id |-> 0, health |-> 100, damage |-> 10, speed |-> 5, attackRange |-> 2,
                attackRate |-> 100, behaviorType |-> "chase"],
    SNIPER |-> [id |-> 1, health |-> 70,  damage |-> 25, speed |-> 4, attackRange |-> 30,
                attackRate |-> 300, behaviorType |-> "ranged"],
    TANK   |-> [id |-> 2, health |-> 200, damage |-> 20, speed |-> 3, attackRange |-> 3,
                attackRate |-> 200, behaviorType |-> "tank"],
    SCOUT  |-> [id |-> 3, health |-> 60,  damage |-> 8,  speed |-> 8, attackRange |-> 5,
                attackRate |-> 50, behaviorType |-> "scout"],
    BOSS   |-> [id |-> 4, health |-> 500, damage |-> 30, speed |-> 4, attackRange |-> 5,
                attackRate |-> 150, behaviorType |-> "boss"] ]

TypeNames == DOMAIN EnemyTypes

\* getRandomEnemyType: any table entry whose id is not 4
RandomEnemyTypes == {n \in TypeNames : EnemyTypes[n].id # 4}

(* A value passed as the `type` argument of the Enemy constructor.  k is   *)
(* the JavaScript kind of the value, v what it holds: a string, the digits *)
(* of a number, or the table key of an EnemyTypes entry passed as object.  *)
TypeArg(k, v) == [k |-> k, v |-> v]

TypeArgs ==
  {TypeArg("string", s) : s \in {"GRUNT", "SNIPER", "SCOUT", "BOSS", "ZOMBIE"}}
    \cup {TypeArg("number", "7")}
    \cup {TypeArg("null", ""), TypeArg("undefined", "")}

\* typeof type
TypeOf(t) ==
  CASE t.k = "string" -> "string"
    [] t.k = "number" -> "number"
    [] t.k = "object" -> "object"
    [] t.k = "null" -> "object"
    [] OTHER -> "undefined"

----------------------------------------------------------------------------
(* Enemy *)

\* basePoints[this.type] || 50
calculatePointValue(e) ==
  LET basePoints == [GRUNT |-> 50, SNIPER |-> 100, TANK |-> 150, SCOUT |-> 125, BOSS |-> 500]
  IN [e EXCEPT !.pointValue =
        IF e.type.k = "string" /\ e.type.v \in DOMAIN basePoints
          THEN basePoints[e.type.v] ELSE 50]

(* configureEnemyType: the config looked up for `type`, or "THROW" when    *)
(* reading enemyType.health raises a TypeError (enemyType is null).        *)
ResolveEnemyType(type) ==
  IF TypeOf(type) = "string"
    THEN IF type.v \in TypeNames THEN type.v ELSE "GRUNT"
    ELSE IF TypeOf(type) = "object"
      THEN IF type.k = "null" THEN "THROW" ELSE type.v
      ELSE "GRUNT"

configureEnemyType(e, type) ==
  LET name == ResolveEnemyType(type)
      enemyType == EnemyTypes[name]
  IN [e EXCEPT
        !.enemyType = name,
        !.health = enemyType.health,
        !.maxHealth = enemyType.health,
        !.damage = enemyType.damage,
        !.speed = enemyType.speed,
        !.attackRange = enemyType.attackRange,
        !.attackCooldown = enemyType.attackRate,
        !.takeCover = IF enemyType.behaviorType = "ranged" THEN TRUE ELSE @,
        !.flanking = IF enemyType.behaviorType = "scout" THEN TRUE ELSE @,
        !.callReinforcements = IF enemyType.behaviorType = "boss" THEN TRUE ELSE @]

\* The assignments of the constructor that follow configureEnemyType
AdvancedBehaviorOptions(e) ==
  [e EXCEPT !.takeCover = FALSE, !.flanking = FALSE, !.callReinforcements = FALSE]

(* constructor(type = 'GRUNT'): an undefined argument takes the default.   *)
(* createMesh runs to its first await inside the constructor; the rest of  *)
(* it (calculatePointValue) is the continuation CreateMeshResume.          *)
NewEnemy(id, typeArg) ==
  LET type == IF typeArg.k = "undefined" THEN TypeArg("string", "GRUNT") ELSE typeArg
      e0 == [id |-> id, type |-> type, enemyType |-> "GRUNT",
             health |-> 100, maxHealth |-> 100, speed |-> 3, damage |-> 10,
             attackRange |-> 2, attackCooldown |-> 100,
             isAlive |-> TRUE, isAware |-> FALSE,
             state |-> "idle", stateTime |-> 0,
             target |-> NullTarget, lastKnownTargetPosition |-> 0,
             takeCover |-> FALSE, flanking |-> FALSE, callReinforcements |-> FALSE,
             velocity |-> 0, position |-> 0,
             pointValue |-> 0, wasKilledByPlayer |-> FALSE, meshPending |-> TRUE]
  IN [AdvancedBehaviorOptions(configureEnemyType(e0, type)) EXCEPT
        !.velocity = 0, !.pointValue = 0, !.wasKilledByPlayer = FALSE]

ConstructorThrows(typeArg) == ResolveEnemyType(typeArg) = "THROW"

\* Math.floor(points + bonusPoints)
getPointValue(e) ==
  LET points == e.pointValue
      aware == IF e.isAware THEN 2 * points ELSE 0
      quick == IF 10 * e.health > 9 * e.maxHealth THEN 3 * points ELSE 0
  IN (10 * points + aware + quick) \div 10

\* die that also clears the awareness flag
die_clearsAwareness(e, source) ==
  LET isPlayer == source.kind = "entity"
      e1 == [e EXCEPT !.isAlive = FALSE, !.state = "dead", !.isAware = FALSE,
                      !.wasKilledByPlayer = IF isPlayer THEN TRUE ELSE @]
  IN [enemy |-> e1,
      emitted |-> <<[enemy |-> e1.id, points |-> getPointValue(e1)]>>,
      kills |-> IF isPlayer THEN 1 ELSE 0,
      scheduled |-> <<e1.id>>,
      error |-> "none"]

(* die(source).  The result carries the enemy after the call and what the  *)
(* call did outside it: the notification emitted, the kill counter         *)
(* increment and the removal timer scheduled.  Enemies are spawned with    *)
(* the game engine attached, so the event branch is taken.                 *)
die(e, source) ==
  LET isPlayer == source.kind = "entity"
      e1 == [e EXCEPT !.isAlive = FALSE, !.state = "dead",
                      !.wasKilledByPlayer = IF isPlayer THEN TRUE ELSE @]
  IN [enemy |-> e1,
      emitted |-> <<[enemy |-> e1.id, points |-> getPointValue(e1)]>>,
      kills |-> IF isPlayer THEN 1 ELSE 0,
      scheduled |-> <<e1.id>>,
      error |-> "none"]

(* takeDamage(amount, source).  A position vector has no `mesh`, so        *)
(* reading source.mesh.position raises a TypeError after the first three   *)
(* assignments of the awareness branch and before the death check.         *)
takeDamage(e, amount, source) ==
  LET e1 == [e EXCEPT !.health = @ - amount]
      becomesAware == source.kind # "none" /\ ~e1.isAware
      e2 == IF becomesAware
              THEN [e1 EXCEPT !.isAware = TRUE, !.target = source, !.state = "chase"]
              ELSE e1
      throws == becomesAware /\ source.kind = "position"
      e3 == IF becomesAware /\ ~throws
              THEN [e2 EXCEPT !.lastKnownTargetPosition = source.pos]
              ELSE e2
  IN IF throws
       THEN [enemy |-> e2, emitted |-> <<>>, kills |-> 0, scheduled |-> <<>>,
             error |-> "TypeError"]
       ELSE IF e3.health <= 0
         THEN die(e3, source)
         ELSE [enemy |-> e3, emitted |-> <<>>, kills |-> 0, scheduled |-> <<>>,
               error |-> "none"]

FsmStates == {"idle", "patrol", "chase", "attack", "search", "takeCover", "flank"}

(* The part of update(deltaTime) behind its guards: state timer, state     *)
(* machine dispatch (the per-state handlers, detectPlayer and              *)
(* updatePathfinding have empty bodies), friction and movement.  Velocity  *)
(* is in thousandths of a unit per second, it is never negative here.      *)
\* updateAI whose switch has no default branch
updateAI_noDefault(e, deltaTime) ==
  LET e1 == [e EXCEPT !.stateTime = @ + deltaTime]
      v1 == (e1.velocity * 9) \div 10
      p1 == e1.position + (v1 * deltaTime) \div 100
      v2 == IF v1 < 10 /\ v1 > -10 THEN 0 ELSE v1
  IN [e1 EXCEPT !.velocity = v2, !.position = p1]

updateAI(e, deltaTime) ==
  LET e1 == [e EXCEPT !.stateTime = @ + deltaTime]
      e2 == IF e1.state \in FsmStates THEN e1 ELSE [e1 EXCEPT !.state = "idle"]
      v1 == (e2.velocity * 9) \div 10
      p1 == e2.position + (v1 * deltaTime) \div 100
      v2 == IF v1 < 10 /\ v1 > -10 THEN 0 ELSE v1
  IN [e2 EXCEPT !.velocity = v2, !.position = p1]

\* update without the `if (!this.isAlive) return` guard
update_ignoresDeath(e, deltaTime) == updateAI(e, deltaTime)

(* update(deltaTime).  stunTime and isFallingDown are never assigned, so   *)
(* the stun guard is false.                                                *)
update(e, deltaTime) ==
  IF ~e.isAlive THEN e ELSE updateAI(e, deltaTime)

----------------------------------------------------------------------------
(* EnemyManager *)

\* enemy.health *= difficulty; enemy.maxHealth *= difficulty
ApplyDifficulty(e, difficulty) ==
  [e EXCEPT !.health = (@ * difficulty) \div 100, !.maxHealth = (@ * difficulty) \div 100]

\* the enemy pushed by spawnEnemy / spawnEnemyOfType / spawnBoss
Spawned(id, typeArg, position, difficulty) ==
  ApplyDifficulty([NewEnemy(id, typeArg) EXCEPT !.position = position], difficulty)

\* spawnEnemy(): new Enemy(enemyType.id) for a random non-boss type
spawnEnemy(id, typeName, position, difficulty) ==
  Spawned(id, TypeArg("number", ToString(EnemyTypes[typeName].id)), position, difficulty)

\* Enemy.onPlayerHeard(player): the body is empty
onPlayerHeard(e) == e

(* alertNearbyEnemies(spotter, player) with both arguments given: every    *)
(* other enemy that is not yet aware and within the radius hears the       *)
(* player.                                                                 *)
alertNearbyEnemies(es, spotter) ==
  LET distance(i) == IF es[i].position >= es[spotter].position
                       THEN es[i].position - es[spotter].position
                       ELSE es[spotter].position - es[i].position
  IN [i \in DOMAIN es |->
        IF i # spotter /\ ~es[i].isAware /\ distance(i) <= alertRadius * 1000
          THEN onPlayerHeard(es[i]) ELSE es[i]]

UpdateAll(es, deltaTime) == [i \in DOMAIN es |-> update(es[i], deltaTime)]

(* The game calls the manager and the enemies from animation frames and    *)
(* input handlers.  addTypeSpecificDetails awaits nothing, so the          *)
(* continuation of every createMesh started by one of them has run when    *)
(* the next one starts.                                                    *)
NoContinuationPending == \A i \in DOMAIN enemies : ~enemies[i].meshPending

EnemyInit ==
  /\ enemies = <<>>
  /\ nextId = 1
  /\ enemiesKilled = 0
  /\ events = <<>>
  /\ timers = <<>>
  /\ lastCall = Call("none", "none")
  /\ bossSpawned = FALSE
  /\ calls = 0

(* EnemyManager.update(deltaTime): tick every enemy, spawn when the spawn  *)
(* interval has elapsed (spawnDue) and there is room, then the boss check. *)
(* The random draws are made only on the branch that uses them.            *)
Update ==
  /\ calls < MaxCalls
  /\ NoContinuationPending
  /\ \E deltaTime \in DeltaTimes, spawnDue \in BOOLEAN :
       LET ticked == UpdateAll(enemies, deltaTime)
           doSpawn == Len(ticked) < maxEnemies /\ spawnDue
           doBoss(es) == ~bossSpawned /\ enemiesKilled >= bossSpawnThreshold
           BossCheck(es, id) ==
             IF doBoss(es)
               THEN \E position \in SpawnPointsX, difficulty \in DifficultyPct :
                      /\ enemies' = Append(es, Spawned(id, TypeArg("string", "BOSS"),
                                                       position, difficulty))
                      /\ nextId' = id + 1
                      /\ bossSpawned' = TRUE
               ELSE /\ enemies' = es
                    /\ nextId' = id
                    /\ UNCHANGED bossSpawned
       IN IF doSpawn
            THEN \E typeName \in RandomEnemyTypes, position \in SpawnPointsX,
                    difficulty \in DifficultyPct :
                   BossCheck(Append(ticked, spawnEnemy(nextId, typeName, position, difficulty)),
                             nextId + 1)
            ELSE BossCheck(ticked, nextId)
  /\ calls' = calls + 1
  /\ lastCall' = Call("update", "none")
  /\ UNCHANGED <<enemiesKilled, events, timers>>
  /\ UNCHANGED nonEnemyVars

(* spawnEnemyOfType(position, enemyType, difficulty).  When the Enemy      *)
(* constructor throws nothing is pushed and the exception leaves the call. *)
SpawnEnemyOfType ==
  /\ calls < MaxCalls
  /\ NoContinuationPending
  /\ \E typeArg \in TypeArgs, position \in SpawnPointsX, difficulty \in DifficultyPct :
       IF ConstructorThrows(typeArg)
         THEN /\ lastCall' = Call("spawnEnemyOfType", "TypeError")
              /\ UNCHANGED <<enemies, nextId>>
         ELSE /\ enemies' = Append(enemies, Spawned(nextId, typeArg, position, difficulty))
              /\ nextId' = nextId + 1
              /\ lastCall' = Call("spawnEnemyOfType", "none")
  /\ calls' = calls + 1
  /\ UNCHANGED <<enemiesKilled, events, timers, bossSpawned>>
  /\ UNCHANGED nonEnemyVars

\* spawnBoss() without the check of bossSpawned
SpawnBoss_unguarded ==
  /\ calls < MaxCalls
  /\ NoContinuationPending
  /\ \E position \in SpawnPointsX, difficulty \in DifficultyPct :
       /\ enemies' = Append(enemies,
                         Spawned(nextId, TypeArg("string", "BOSS"), position, difficulty))
       /\ nextId' = nextId + 1
       /\ bossSpawned' = TRUE
  /\ lastCall' = Call("spawnBoss", "none")
  /\ calls' = calls + 1
  /\ UNCHANGED <<enemiesKilled, events, timers>>
  /\ UNCHANGED nonEnemyVars

\* spawnBoss()
SpawnBoss ==
  /\ calls < MaxCalls
  /\ NoContinuationPending
  /\ IF bossSpawned
       THEN UNCHANGED <<enemies, nextId, bossSpawned>>
       ELSE \E position \in SpawnPointsX, difficulty \in DifficultyPct :
              /\ enemies' = Append(enemies,
                                Spawned(nextId, TypeArg("string", "BOSS"), position, difficulty))
              /\ nextId' = nextId + 1
              /\ bossSpawned' = TRUE
  /\ lastCall' = Call("spawnBoss", "none")
  /\ calls' = calls + 1
  /\ UNCHANGED <<enemiesKilled, events, timers>>
  /\ UNCHANGED nonEnemyVars

\* the continuation of createMesh after its await: calculatePointValue()
CreateMeshResume ==
  /\ \E i \in DOMAIN enemies :
       /\ enemies[i].meshPending
       /\ enemies' = [enemies EXCEPT ![i] = [calculatePointValue(@) EXCEPT !.meshPending = FALSE]]
  /\ lastCall' = Call("createMesh", "none")
  /\ UNCHANGED <<nextId, enemiesKilled, events, timers, bossSpawned, calls>>
  /\ UNCHANGED nonEnemyVars

\* a caller (hitscan shot, projectile hit, or any holder of the enemy) calls takeDamage
TakeDamage ==
  /\ calls < MaxCalls
  /\ NoContinuationPending
  /\ \E i \in DOMAIN enemies, amount \in DamageAmounts, source \in Sources :
       LET r == takeDamage(enemies[i], amount, source)
       IN /\ enemies' = [enemies EXCEPT ![i] = r.enemy]
          /\ events' = events \o r.emitted
          /\ enemiesKilled' = enemiesKilled + r.kills
          /\ timers' = timers \o r.scheduled
          /\ lastCall' = Call("takeDamage", r.error)
  /\ calls' = calls + 1
  /\ UNCHANGED <<nextId, bossSpawned>>
  /\ UNCHANGED nonEnemyVars

\* an enemy that spotted the player alerts the others
AlertNearbyEnemies ==
  /\ calls < MaxCalls
  /\ NoContinuationPending
  /\ \E spotter \in DOMAIN enemies :
       enemies' = alertNearbyEnemies(enemies, spotter)
  /\ lastCall' = Call("alertNearbyEnemies", "none")
  /\ calls' = calls + 1
  /\ UNCHANGED <<nextId, enemiesKilled, events, timers, bossSpawned>>
  /\ UNCHANGED nonEnemyVars

EnemyNext ==
  Update \/ SpawnEnemyOfType \/ SpawnBoss \/ CreateMeshResume \/ TakeDamage
    \/ AlertNearbyEnemies

----------------------------------------------------------------------------
(* Properties of the enemy core *)

\* the number of 'enemyKilled' notifications and of removal timers of one enemy
DeathEvents(id) == Cardinality({k \in DOMAIN events : events[k].enemy = id})
RemovalTimers(id) == Cardinality({k \in DOMAIN timers : timers[k] = id})

\* the enemy object has the same identity before and after a step
SameEnemy(i, j) == enemies[i].id = enemies'[j].id

(* C1: for every enemy the death transition has fired exactly once when   *)
(* its health is at or below zero and never otherwise: one 'enemyKilled'  *)
(* notification and one scheduled removal, the enemy not alive and dead.  *)
C1_DeathFiresExactlyOnce ==
  \A i \in DOMAIN enemies :
    LET e == enemies[i]
    IN IF e.health <= 0
         THEN /\ DeathEvents(e.id) = 1
              /\ RemovalTimers(e.id) = 1
              /\ ~e.isAlive
              /\ e.state = "dead"
         ELSE /\ DeathEvents(e.id) = 0
              /\ RemovalTimers(e.id) = 0
              /\ e.isAlive

(* C2: every enemy's health stays within [0, maxHealth] after every       *)
(* spawn, tick and takeDamage call.                                       *)
C2_HealthWithinBounds ==
  \A i \in DOMAIN enemies : 0 <= enemies[i].health /\ enemies[i].health <= enemies[i].maxHealth

(* C3: an enemy whose health has reached zero is in state 'dead', and an  *)
(* enemy in state 'dead' is in state 'dead' after every later step.       *)
C3_DeadIsTerminal ==
  /\ [](\A i \in DOMAIN enemies : enemies[i].health <= 0 => enemies[i].state = "dead")
  /\ [][\A i \in DOMAIN enemies : \A j \in DOMAIN enemies' :
          SameEnemy(i, j) /\ enemies[i].state = "dead" => enemies'[j].state = "dead"]_vars

(* C4: a takeDamage call that lowers the health of a living enemy that is *)
(* not yet aware returns normally and leaves the enemy aware, with the    *)
(* damage source as target, its position as last-known position, and in   *)
(* state 'chase' (or 'dead' when the damage was lethal).                   *)
C4_DamageMakesAware ==
  [][\A i \in DOMAIN enemies : \A j \in DOMAIN enemies' :
       /\ SameEnemy(i, j)
       /\ lastCall'.op = "takeDamage" /\ calls' = calls + 1
       /\ enemies[i].isAlive /\ ~enemies[i].isAware
       /\ enemies'[j].health < enemies[i].health
       => /\ lastCall'.error = "none"
          /\ enemies'[j].isAware
          /\ enemies'[j].target # NullTarget
          /\ enemies'[j].lastKnownTargetPosition = enemies'[j].target.pos
          /\ enemies'[j].state = IF enemies'[j].health <= 0 THEN "dead" ELSE "chase"]_vars

(* C5: when an aware boss at full health is killed, the notification      *)
(* emitted by that death carries floor(basePoints * 1.5) points.          *)
C5_BossKillPoints ==
  [][\A i \in DOMAIN enemies : \A j \in DOMAIN enemies' :
       /\ SameEnemy(i, j)
       /\ enemies[i].type = TypeArg("string", "BOSS") /\ ~enemies[i].meshPending
       /\ enemies[i].isAlive /\ enemies[i].isAware
       /\ enemies[i].health = enemies[i].maxHealth
       /\ ~enemies'[j].isAlive
       => /\ Len(events') = Len(events) + 1
          /\ events'[Len(events')].enemy = enemies[i].id
          /\ events'[Len(events')].points = (15 * 500) \div 10]_vars

(* C6: a tick never changes whether an enemy is alive, and it leaves the  *)
(* state, stateTime, target, velocity and position of a dead enemy        *)
(* unchanged: no AI step runs for an enemy once it has died.              *)
C6_DeadEnemyFrozen ==
  [][lastCall'.op = "update" /\ calls' = calls + 1 =>
       \A i \in DOMAIN enemies : \A j \in DOMAIN enemies' :
         SameEnemy(i, j) =>
           /\ enemies'[j].isAlive = enemies[i].isAlive
           /\ ~enemies[i].isAlive =>
                /\ enemies'[j].state = enemies[i].state
                /\ enemies'[j].stateTime = enemies[i].stateTime
                /\ enemies'[j].target = enemies[i].target
                /\ enemies'[j].velocity = enemies[i].velocity
                /\ enemies'[j].position = enemies[i].position]_vars

\* a dead enemy has just been ticked (a tick spawns living enemies only)
C6_Witness ==
  /\ lastCall.op = "update"
  /\ \E i \in DOMAIN enemies : ~enemies[i].isAlive /\ enemies[i].state = "dead"

(* C7: an enemy that is aware is aware after every later step, and an     *)
(* enemy enters the list unaware.                                         *)
C7_AwarenessMonotonic ==
  [][\A j \in DOMAIN enemies' :
       IF \E i \in DOMAIN enemies : SameEnemy(i, j)
         THEN \A i \in DOMAIN enemies :
                SameEnemy(i, j) /\ enemies[i].isAware => enemies'[j].isAware
         ELSE ~enemies'[j].isAware]_vars

\* an enemy made aware by damage has since been ticked (a tick makes no enemy aware)
C7_Witness ==
  /\ lastCall.op = "update"
  /\ \E i \in DOMAIN enemies :
       enemies[i].isAware /\ enemies[i].isAlive /\ enemies[i].stateTime > 0

\* the behaviour of an enemy type as the table gives it
BehaviorTypeOf(e) == EnemyTypes[e.enemyType].behaviorType

(* C8: the behaviour flags of every enemy are those of its type: takeCover *)
(* for the ranged type, flanking for the scout type, callReinforcements    *)
(* for the boss type, and false otherwise, at every moment of its life.    *)
C8_BehaviorFlagsFromType ==
  \A i \in DOMAIN enemies :
    /\ enemies[i].takeCover = (BehaviorTypeOf(enemies[i]) = "ranged")
    /\ enemies[i].flanking = (BehaviorTypeOf(enemies[i]) = "scout")
    /\ enemies[i].callReinforcements = (BehaviorTypeOf(enemies[i]) = "boss")

\* the type tag is none of the keys of the EnemyTypes table
Unrecognized(type) == ~(type.k = "string" /\ type.v \in TypeNames)

(* C9: spawnEnemyOfType never fails, and an enemy spawned with an         *)
(* unrecognized type tag has the GRUNT statistics (health before the      *)
(* difficulty scaling 100, damage 10, speed 5, attackRange 2, rate 1 s).   *)
C9_UnknownTypeSpawnsGrunt ==
  /\ [](lastCall.op = "spawnEnemyOfType" => lastCall.error = "none")
  /\ [](\A i \in DOMAIN enemies :
          Unrecognized(enemies[i].type) =>
            /\ enemies[i].maxHealth \in {(100 * d) \div 100 : d \in DifficultyPct}
            /\ enemies[i].damage = 10
            /\ enemies[i].speed = 5
            /\ enemies[i].attackRange = 2
            /\ enemies[i].attackCooldown = 100)

----------------------------------------------------------------------------
(* WasmInterface and AISystem: behaviour trees *)

MaxAICalls == 4

EntityIds == {1, 2}

\* Math.floor(Math.random() * 3), results [0, 1, 2] and Math.random() * 10 (whole values)
ActionCodes == {0, 1, 2}
ResultCodes == {0, 1, 2}
ActionParameters == {0, 4, 9}

(* How a call of tree.evaluate(context) ends: normally, or with an         *)
(* exception raised by the first or by the second context.set_value.       *)
EvalFaults == {"none", "set_action", "set_action_parameter"}

\* a BehaviorContext as constructed: the values get_value returns before any set_value
NewBehaviorContext == [action |-> 0, action_parameter |-> 0, target_visible |-> 0]

\* the value returned to the caller when no exception leaves the call
NoResult == [result |-> -1, action |-> -1, parameter |-> -1]

(* createMockBehaviorTree().evaluate(context): sets a random action and    *)
(* parameter in the context when one is given, returns a random result.    *)
MockTreeEvaluate(context, hasContext, fault, rAction, rParameter, rResult) ==
  IF ~hasContext THEN [result |-> rResult, context |-> context, threw |-> FALSE]
  ELSE IF fault = "set_action"
    THEN [result |-> 0, context |-> context, threw |-> TRUE]
  ELSE IF fault = "set_action_parameter"
    THEN [result |-> 0, context |-> [context EXCEPT !.action = rAction], threw |-> TRUE]
  ELSE [result |-> rResult,
        context |-> [context EXCEPT !.action = rAction, !.action_parameter = rParameter],
        threw |-> FALSE]

\* evaluateBehaviorTree whose accelerated branch has no try/catch
evaluateBehaviorTree_noCatch(w, hasTree, context, fault, rAction, rParameter, rResult) ==
  IF hasTree
    THEN LET r == MockTreeEvaluate(context, w.wasmModule, fault, rAction, rParameter, rResult)
         IN [result |-> r.result, context |-> r.context,
             error |-> IF r.threw THEN "Error" ELSE "none"]
    ELSE [result |-> 0, context |-> context, error |-> "none"]

(* WasmInterface.evaluateBehaviorTree(tree, context): with a module loaded *)
(* the evaluation is wrapped in try/catch and a throw gives 0 (Failure);   *)
(* without a module tree.evaluate() is called with no context.             *)
evaluateBehaviorTree(w, hasTree, context, fault, rAction, rParameter, rResult) ==
  IF w.wasmModule /\ hasTree
    THEN LET r == MockTreeEvaluate(context, TRUE, fault, rAction, rParameter, rResult)
         IN IF r.threw
              THEN [result |-> 0, context |-> r.context, error |-> "none"]
              ELSE [result |-> r.result, context |-> r.context, error |-> "none"]
    ELSE IF hasTree
      THEN LET r == MockTreeEvaluate(context, FALSE, fault, rAction, rParameter, rResult)
           IN [result |-> r.result, context |-> r.context,
               error |-> IF r.threw THEN "Error" ELSE "none"]
      ELSE [result |-> 0, context |-> context, error |-> "none"]

AIInit ==
  /\ wasm = [isLoaded |-> FALSE, wasmModule |-> FALSE, enemyFactory |-> FALSE,
             physicsSystem |-> FALSE, pathfinder |-> FALSE]
  /\ aiWasmInterface = FALSE
  /\ behaviorTrees = {}
  /\ behaviorContexts = [id \in {} |-> NewBehaviorContext]
  /\ aiCall = [op |-> "none", entity |-> 0, fault |-> "none", error |-> "none",
               returned |-> NoResult]
  /\ aiCalls = 0

(* WasmInterface.init(): the module loads (loadOk) or loadWasmModule       *)
(* returns null; either way the error is caught and init() returns.        *)
WasmInit ==
  /\ \E loadOk \in BOOLEAN : wasm' = [wasm EXCEPT !.wasmModule = loadOk]
  /\ UNCHANGED <<aiWasmInterface, behaviorTrees, behaviorContexts, aiCall, aiCalls>>
  /\ UNCHANGED nonAIVars

\* WasmInterface.initFallback()
WasmInitFallback ==
  /\ wasm' = [wasm EXCEPT !.physicsSystem = TRUE, !.enemyFactory = TRUE,
                           !.pathfinder = TRUE, !.isLoaded = TRUE]
  /\ UNCHANGED <<aiWasmInterface, behaviorTrees, behaviorContexts, aiCall, aiCalls>>
  /\ UNCHANGED nonAIVars

\* AISystem.initWasm(): the awaited initWasm() resolves to the instance
AIInitWasm ==
  /\ ~aiWasmInterface
  /\ aiWasmInterface' = TRUE
  /\ UNCHANGED <<wasm, behaviorTrees, behaviorContexts, aiCall, aiCalls>>
  /\ UNCHANGED nonAIVars

(* AISystem.createBehaviorTree(entityId, enemyType).  With isLoaded set    *)
(* and no module, `new wasmModule.BehaviorContext()` raises a TypeError    *)
(* before either map is written.                                            *)
AICreateBehaviorTree ==
  /\ aiCalls < MaxAICalls
  /\ \E entityId \in EntityIds :
       IF aiWasmInterface /\ wasm.isLoaded
         THEN IF wasm.wasmModule
           THEN /\ behaviorContexts' =
                     [id \in DOMAIN behaviorContexts \cup {entityId} |->
                        IF id = entityId THEN NewBehaviorContext ELSE behaviorContexts[id]]
                /\ behaviorTrees' = behaviorTrees \cup {entityId}
                /\ aiCall' = [op |-> "create", entity |-> entityId, fault |-> "none",
                              error |-> "none", returned |-> NoResult]
           ELSE /\ aiCall' = [op |-> "create", entity |-> entityId, fault |-> "none",
                              error |-> "TypeError", returned |-> NoResult]
                /\ UNCHANGED <<behaviorTrees, behaviorContexts>>
         ELSE /\ aiCall' = [op |-> "create", entity |-> entityId, fault |-> "none",
                            error |-> "none", returned |-> NoResult]
              /\ UNCHANGED <<behaviorTrees, behaviorContexts>>
  /\ aiCalls' = aiCalls + 1
  /\ UNCHANGED <<wasm, aiWasmInterface>>
  /\ UNCHANGED nonAIVars

(* AISystem.evaluateBehaviorTree(entityId, position, targetPosition,       *)
(* health, maxHealth).  targetVisible is what hasLineOfSight returned.     *)
AIEvaluateBehaviorTree ==
  /\ aiCalls < MaxAICalls
  /\ \E entityId \in EntityIds :
       IF aiWasmInterface /\ wasm.isLoaded
            /\ entityId \in behaviorTrees /\ entityId \in DOMAIN behaviorContexts
         THEN \E targetVisible \in BOOLEAN, fault \in EvalFaults, rAction \in ActionCodes,
                 rParameter \in ActionParameters, rResult \in ResultCodes :
                LET context == [behaviorContexts[entityId] EXCEPT
                                  !.target_visible = IF targetVisible THEN 1 ELSE 0]
                    r == evaluateBehaviorTree(wasm, TRUE, context, fault,
                                              rAction, rParameter, rResult)
                IN /\ behaviorContexts' = [behaviorContexts EXCEPT ![entityId] = r.context]
                   /\ aiCall' = [op |-> "evaluate", entity |-> entityId, fault |-> fault,
                                 error |-> r.error,
                                 returned |-> IF r.error = "none"
                                   THEN [result |-> r.result, action |-> r.context.action,
                                         parameter |-> r.context.action_parameter]
                                   ELSE NoResult]
         ELSE /\ aiCall' = [op |-> "evaluate", entity |-> entityId, fault |-> "none",
                            error |-> "none",
                            returned |-> [result |-> 1, action |-> 0, parameter |-> 5]]
              /\ UNCHANGED behaviorContexts
  /\ aiCalls' = aiCalls + 1
  /\ UNCHANGED <<wasm, aiWasmInterface, behaviorTrees>>
  /\ UNCHANGED nonAIVars

\* AISystem.reset()
AIReset ==
  /\ aiCalls < MaxAICalls
  /\ behaviorTrees' = {}
  /\ behaviorContexts' = [id \in {} |-> NewBehaviorContext]
  /\ aiCall' = [op |-> "reset", entity |-> 0, fault |-> "none", error |-> "none",
                returned |-> NoResult]
  /\ aiCalls' = aiCalls + 1
  /\ UNCHANGED <<wasm, aiWasmInterface>>
  /\ UNCHANGED nonAIVars

AINext ==
  WasmInit \/ WasmInitFallback \/ AIInitWasm \/ AICreateBehaviorTree
    \/ AIEvaluateBehaviorTree \/ AIReset

----------------------------------------------------------------------------
(* Properties of the behaviour-tree evaluation *)

----------------------------------------------------------------------------
(* wasm-loader: initWasm() and the singleton WasmInterface *)

MaxInitCalls == 4

\* index.js (DOMContentLoaded), the PhysicsSystem constructor, the AISystem constructor
InitCallers == {"index", "physics", "ai"}

(* How WasmInterface.init() can end: loadWasmModule() returns the module,  *)
(* returns null (init then throws its own error), or the import of the     *)
(* generated loader fails.  init() catches every one of them and returns.  *)
LoadOutcomes == {"loaded", "null", "importThrows"}

\* initWasm() with the check of the pending promise left out
InitInProgress_never == FALSE

\* if (initializationPromise)
InitInProgress == initializationPromise

\* the callers' awaits resolve to the instance the loader holds
ResolvedTo(callers) ==
  resolvedTo' = [c \in InitCallers |-> IF c \in callers THEN constructed ELSE resolvedTo[c]]

SingletonInit ==
  /\ constructed = 0
  /\ initsInFlight = 0
  /\ resolvedTo = [c \in InitCallers |-> 0]

LoaderInit ==
  /\ wasmInstance = FALSE
  /\ initializationPromise = FALSE
  /\ waiters = {}
  /\ initRuns = 0
  /\ initCompleted = 0
  /\ lastOutcome = "none"
  /\ loaderCalls = 0

\* the caller's `this.wasmInterface = await initWasm()` has resolved
Resolved(callers) ==
  /\ aiWasmInterface' = (aiWasmInterface \/ "ai" \in callers)
  /\ physWasmInterface' = (physWasmInterface \/ "physics" \in callers)

(* initWasm() up to the first await of _initWasm().  index.js calls it     *)
(* first and constructs the systems after its await has returned.          *)
InitWasm ==
  /\ loaderCalls < MaxInitCalls
  /\ \E caller \in InitCallers :
       /\ caller = "index" <=> loaderCalls = 0
       /\ "index" \notin waiters
       /\ IF wasmInstance /\ wasm.isLoaded
            THEN /\ Resolved({caller})
                 /\ ResolvedTo({caller})
                 /\ UNCHANGED <<wasmInstance, initializationPromise, waiters, initRuns,
                                constructed, initsInFlight>>
            ELSE IF InitInProgress
              THEN /\ waiters' = waiters \cup {caller}
                   /\ UNCHANGED <<wasmInstance, initializationPromise, initRuns,
                                  aiWasmInterface, physWasmInterface, singletonVars>>
              ELSE /\ wasmInstance' = TRUE
                   /\ constructed' = IF wasmInstance THEN constructed ELSE constructed + 1
                   /\ initializationPromise' = TRUE
                   /\ initRuns' = initRuns + 1
                   /\ initsInFlight' = initsInFlight + 1
                   /\ waiters' = {caller}
                   /\ UNCHANGED <<aiWasmInterface, physWasmInterface, resolvedTo>>
  /\ loaderCalls' = loaderCalls + 1
  /\ UNCHANGED <<initCompleted, lastOutcome>>
  /\ UNCHANGED <<wasm, behaviorTrees, behaviorContexts, aiCall, aiCalls>>
  /\ UNCHANGED <<physGameEngine, physEntities, wasmPhysicsSystem, physCall, physCalls>>
  /\ UNCHANGED <<enemyVars, pathVars, netVars, lifeVars, serverVars, coolVars, alertVars, spawnVars, loopVars>>

(* The awaited WasmInterface.init() returns, _initWasm() returns the       *)
(* instance and its finally block clears the promise.  init() never        *)
(* rejects, so the catch block of _initWasm() (initFallback) is not run.   *)
InitSettles ==
  /\ initializationPromise
  /\ \E outcome \in LoadOutcomes :
       /\ wasm' = IF outcome = "importThrows" THEN wasm
                  ELSE [wasm EXCEPT !.wasmModule = (outcome = "loaded")]
       /\ lastOutcome' = outcome
  /\ initializationPromise' = FALSE
  /\ initCompleted' = initCompleted + 1
  /\ initsInFlight' = initsInFlight - 1
  /\ Resolved(waiters)
  /\ ResolvedTo(waiters)
  /\ waiters' = {}
  /\ UNCHANGED <<wasmInstance, initRuns, loaderCalls, constructed>>
  /\ UNCHANGED <<behaviorTrees, behaviorContexts, aiCall, aiCalls>>
  /\ UNCHANGED <<physGameEngine, physEntities, wasmPhysicsSystem, physCall, physCalls>>
  /\ UNCHANGED <<enemyVars, pathVars, netVars, lifeVars, serverVars, coolVars, alertVars, spawnVars, loopVars>>

LoaderNext == InitWasm \/ InitSettles

C26_InitWasmReentrant ==
  /\ [](constructed <= 1 /\ initsInFlight <= 1)
  /\ [][initializationPromise /\ ~initializationPromise' =>
         \A c1 \in waiters, c2 \in waiters :
           resolvedTo'[c1] = resolvedTo'[c2] /\ resolvedTo'[c1] = 1]_vars

(* the physics and the AI system called initWasm() during the same run of  *)
(* init(), the second run of the session, and both have their instance     *)
C26_Witness ==
  /\ initRuns = 2 /\ initCompleted = 2 /\ ~initializationPromise
  /\ resolvedTo["physics"] = 1 /\ resolvedTo["ai"] = 1
  /\ physWasmInterface /\ aiWasmInterface

----------------------------------------------------------------------------
(* WasmInterface: the physics calls *)

MaxPhysCalls == 3

\* PhysicsSystem.gravity and the literal of the JavaScript fallback: 9.8, in tenths
gravity == 98
mockGravity == 98

(* How the accelerated part of a physics call ends: normally, or with an   *)
(* exception raised while the WebAssembly objects are constructed, or by   *)
(* the call of the WebAssembly function itself.  Both happen before any    *)
(* result is copied back.                                                  *)
PhysFaults == {"none", "construct", "call"}

\* heights and vertical velocities handed to applyGravity, and frame times
GravityHeights == {0, 500, 5000, 20000}
GravityVelocities == {0, -9800}
PhysDeltaTimes == {10, 100}

\* sphere centres and radii handed to checkSphereCollision
Vec(x, y, z) == [x |-> x, y |-> y, z |-> z]
SphereCentres == {Vec(0, 0, 0), Vec(1500, 0, 0), Vec(2000, 0, 0), Vec(0, 3000, 4000)}
SphereRadii == {1000, 2500}

\* the body a gravity step works on
Body(y, vy) == [y |-> y, vy |-> vy]

(* createMockPhysicsSystem().applyGravity: velocity first, then position,  *)
(* then the ground clamp.                                                  *)
MockApplyGravity(b, deltaTime) ==
  LET vy == b.vy - mockGravity * deltaTime
      y == b.y + (vy * deltaTime) \div 100
  IN IF y < 0 THEN Body(0, 0) ELSE Body(y, vy)

(* apply_gravity of the WebAssembly PhysicsSystem: the same constant, the  *)
(* same integration order and the same clamp.                              *)
WasmApplyGravity(b, deltaTime) ==
  LET vy == b.vy - 98 * deltaTime
      y == b.y + (vy * deltaTime) \div 100
  IN IF y < 0 THEN Body(0, 0) ELSE Body(y, vy)

\* dx * dx + dy * dy + dz * dz
DistanceSquared(p, q) ==
  (p.x - q.x) * (p.x - q.x) + (p.y - q.y) * (p.y - q.y) + (p.z - q.z) * (p.z - q.z)

\* Math.sqrt(d2) < sum, for whole numbers
SqrtLess(d2, sum) == sum > 0 /\ d2 < sum * sum

\* createMockPhysicsSystem().checkSphereCollision
MockCheckSphereCollision(position1, radius1, position2, radius2) ==
  SqrtLess(DistanceSquared(position1, position2), radius1 + radius2)

\* check_sphere_collision of the WebAssembly PhysicsSystem
WasmCheckSphereCollision(position1, radius1, position2, radius2) ==
  SqrtLess(DistanceSquared(position1, position2), radius1 + radius2)

\* the accelerated branch is taken: wasmModule with its Vector3 and PhysicsSystem
Accelerated(w) == w.physicsSystem /\ w.wasmModule

\* applyGravity whose accelerated branch has no try/catch
applyGravity_noCatch(w, b, deltaTime, fault) ==
  IF ~w.physicsSystem THEN [out |-> b, path |-> "none", error |-> "none"]
  ELSE IF w.wasmModule
    THEN IF fault = "none"
           THEN [out |-> WasmApplyGravity(b, deltaTime), path |-> "wasm", error |-> "none"]
           ELSE [out |-> b, path |-> "wasm", error |-> "Error"]
    ELSE [out |-> MockApplyGravity(b, deltaTime), path |-> "js", error |-> "none"]

(* WasmInterface.applyGravity(position, velocity, deltaTime).  path tells  *)
(* which implementation completed the call; "wasm-js" is the fallback      *)
(* after the accelerated attempt threw.                                    *)
applyGravity(w, b, deltaTime, fault) ==
  IF ~w.physicsSystem THEN [out |-> b, path |-> "none", error |-> "none"]
  ELSE IF w.wasmModule
    THEN IF fault = "none"
           THEN [out |-> WasmApplyGravity(b, deltaTime), path |-> "wasm", error |-> "none"]
           ELSE [out |-> MockApplyGravity(b, deltaTime), path |-> "wasm-js",
                 error |-> "none"]
    ELSE [out |-> MockApplyGravity(b, deltaTime), path |-> "js", error |-> "none"]

\* WasmInterface.checkSphereCollision(position1, radius1, position2, radius2)
checkSphereCollision(w, position1, radius1, position2, radius2, fault) ==
  IF ~w.physicsSystem THEN [out |-> FALSE, path |-> "none", error |-> "none"]
  ELSE IF w.wasmModule
    THEN IF fault = "none"
           THEN [out |-> WasmCheckSphereCollision(position1, radius1, position2, radius2),
                 path |-> "wasm", error |-> "none"]
           ELSE [out |-> MockCheckSphereCollision(position1, radius1, position2, radius2),
                 path |-> "wasm-js", error |-> "none"]
    ELSE [out |-> MockCheckSphereCollision(position1, radius1, position2, radius2),
          path |-> "js", error |-> "none"]

\* positions and velocities along one axis, and masses, handed to resolveSphereCollision
ResolvePositions == {0, 1500}
ResolveVelocities == {-2000, 0, 2000}
ResolveMasses == {1, 2}

Bodies2(x1, v1, x2, v2) == [x1 |-> x1, v1 |-> v1, x2 |-> x2, v2 |-> v2]

(* createMockPhysicsSystem().resolveSphereCollision for two spheres on one *)
(* axis: the normal is the sign of dx, the restitution is 0.2.             *)
MockResolveSphereCollision(c, mass1, mass2) ==
  LET dx == c.x1 - c.x2
      nx == IF dx > 0 THEN 1 ELSE -1
      velAlongNormal == (c.v1 - c.v2) * nx
      \* -(1 + restitution) * velAlongNormal / (1 / mass1 + 1 / mass2)
      impulseScalar == (-12 * velAlongNormal * mass1 * mass2) \div (10 * (mass1 + mass2))
  IN IF dx = 0 \/ velAlongNormal > 0 THEN c
     ELSE [c EXCEPT !.v1 = @ + (impulseScalar * nx) \div mass1,
                    !.v2 = @ - (impulseScalar * nx) \div mass2]

(* The accelerated branch of resolveSphereCollision: the WebAssembly       *)
(* function resolves the collision as the fallback does, and position1,    *)
(* velocity1 and position2 are copied back (velocity2 is not).             *)
WasmResolveSphereCollision(c, mass1, mass2) ==
  LET r == MockResolveSphereCollision(c, mass1, mass2)
  IN [c EXCEPT !.x1 = r.x1, !.v1 = r.v1, !.x2 = r.x2]

\* WasmInterface.resolveSphereCollision(position1, velocity1, mass1, position2, velocity2, mass2)
resolveSphereCollision(w, c, mass1, mass2, fault) ==
  IF ~w.physicsSystem THEN [out |-> c, path |-> "none", error |-> "none"]
  ELSE IF w.wasmModule
    THEN IF fault = "none"
           THEN [out |-> WasmResolveSphereCollision(c, mass1, mass2), path |-> "wasm",
                 error |-> "none"]
           ELSE [out |-> MockResolveSphereCollision(c, mass1, mass2), path |-> "wasm-js",
                 error |-> "none"]
    ELSE [out |-> MockResolveSphereCollision(c, mass1, mass2), path |-> "js",
          error |-> "none"]

PhysInit ==
  /\ physWasmInterface = FALSE
  /\ physGameEngine = FALSE
  /\ physEntities = <<>>
  /\ wasmPhysicsSystem = FALSE
  /\ physCall = [op |-> "none", fault |-> "none", accelerated |-> FALSE, earlierFaults |-> 0,
                 path |-> "none", error |-> "none", args |-> <<>>, out |-> <<>>]
  /\ physCalls = 0

(* What a physics call of the WasmInterface leaves behind: the record of   *)
(* the call and the lazily created _wasmPhysicsSystem.  A fault exists     *)
(* only where the accelerated branch is taken.                             *)
PhysCalled(op, fault, args, r) ==
  /\ fault # "none" => Accelerated(wasm)
  /\ physCalls < MaxPhysCalls
  /\ physCall' = [op |-> op, fault |-> fault, accelerated |-> Accelerated(wasm),
                  earlierFaults |-> physCall.earlierFaults
                                      + (IF physCall.fault # "none" THEN 1 ELSE 0),
                  path |-> r.path, error |-> r.error, args |-> args, out |-> r.out]
  /\ wasmPhysicsSystem' = (wasmPhysicsSystem \/ (Accelerated(wasm) /\ fault # "construct"))
  /\ physCalls' = physCalls + 1
  /\ UNCHANGED <<physWasmInterface, physGameEngine, physEntities>>
  /\ UNCHANGED <<enemyVars, aiVars, loaderVars, pathVars, netVars, laterVars>>

CallApplyGravity ==
  \E y \in GravityHeights, vy \in GravityVelocities, deltaTime \in PhysDeltaTimes,
     fault \in PhysFaults :
    PhysCalled("applyGravity", fault, [b |-> Body(y, vy), deltaTime |-> deltaTime],
               applyGravity(wasm, Body(y, vy), deltaTime, fault))

CallCheckSphereCollision ==
  \E position1 \in SphereCentres, position2 \in SphereCentres,
     radius1 \in SphereRadii, radius2 \in SphereRadii, fault \in PhysFaults :
    PhysCalled("checkSphereCollision", fault,
               [position1 |-> position1, radius1 |-> radius1,
                position2 |-> position2, radius2 |-> radius2],
               checkSphereCollision(wasm, position1, radius1, position2, radius2, fault))

CallResolveSphereCollision ==
  \E x1 \in ResolvePositions, x2 \in ResolvePositions,
     v1 \in ResolveVelocities, v2 \in ResolveVelocities,
     mass1 \in ResolveMasses, mass2 \in ResolveMasses, fault \in PhysFaults :
    PhysCalled("resolveSphereCollision", fault,
               [c |-> Bodies2(x1, v1, x2, v2), mass1 |-> mass1, mass2 |-> mass2],
               resolveSphereCollision(wasm, Bodies2(x1, v1, x2, v2), mass1, mass2, fault))

WasmPhysicsNext ==
  WasmInit \/ WasmInitFallback \/ CallApplyGravity \/ CallCheckSphereCollision
    \/ CallResolveSphereCollision

\* what the JavaScript implementation makes of the arguments of the last physics call
JsResultOfLastCall ==
  CASE physCall.op = "applyGravity" ->
         MockApplyGravity(physCall.args.b, physCall.args.deltaTime)
    [] physCall.op = "checkSphereCollision" ->
         MockCheckSphereCollision(physCall.args.position1, physCall.args.radius1,
                                  physCall.args.position2, physCall.args.radius2)
    [] physCall.op = "resolveSphereCollision" ->
         MockResolveSphereCollision(physCall.args.c, physCall.args.mass1, physCall.args.mass2)
    [] OTHER -> <<>>

LastSpheresOverlap ==
  SqrtLess(DistanceSquared(physCall.args.position1, physCall.args.position2),
           physCall.args.radius1 + physCall.args.radius2)

(* C18: in every backend state checkSphereCollision returns true exactly   *)
(* when the distance of the centres is strictly less than the sum of the   *)
(* radii.                                                                  *)
C18_SphereCollisionIffOverlap ==
  physCall.op = "checkSphereCollision" =>
    /\ physCall.error = "none"
    /\ physCall.out = LastSpheresOverlap

----------------------------------------------------------------------------
(* PhysicsSystem: the physics tick *)

MaxEntities == 11

\* PhysicsSystem.update: const batchSize = 10
batchSize == 10

(* The entities registered with the engine: where they start (thousandths  *)
(* of a unit) and the radius of the bounding sphere of their mesh.  Every  *)
(* one has a mesh with a geometry and a velocity, and none is static.      *)
EntityStarts == {[x |-> 0, y |-> 5000], [x |-> 1500, y |-> 20000]}
EntityRadius == 1000

\* the frame time of a physics tick: 1 s
TickDeltaTimes == {100}

NewEntity(id, start) ==
  [id |-> id, x |-> start.x, y |-> start.y, vy |-> 0, onGround |-> "undefined",
   radius |-> EntityRadius, geometry |-> TRUE]

\* the JavaScript fallback of _processPhysicsBatch: gravity, movement, ground collision
JsGravityStep(e, deltaTime) ==
  LET vy == e.vy - gravity * deltaTime
      y == e.y + (vy * deltaTime) \div 100
  IN IF y < 0
       THEN [e EXCEPT !.y = 0, !.vy = 0, !.onGround = "true"]
       ELSE [e EXCEPT !.y = y, !.vy = vy, !.onGround = "false"]

\* this.wasmInterface.applyGravity(entity.mesh.position, entity.velocity, deltaTime)
DelegatedGravityStep(w, e, deltaTime) ==
  LET r == applyGravity(w, Body(e.y, e.vy), deltaTime, "none")
  IN [e EXCEPT !.y = r.out.y, !.vy = r.out.vy]

\* the gravity and movement step of _processPhysicsBatch for one entity
GravityStep(delegated, w, e, deltaTime) ==
  IF delegated THEN DelegatedGravityStep(w, e, deltaTime) ELSE JsGravityStep(e, deltaTime)

\* _checkCollision(meshA, meshB): bounding spheres, scale 1
CheckCollision(a, b) ==
  /\ a.geometry /\ b.geometry
  /\ SqrtLess((a.x - b.x) * (a.x - b.x) + (a.y - b.y) * (a.y - b.y), a.radius + b.radius)

\* _resolveDynamicCollision(entityA, entityB): the two onCollision callbacks
ResolveDynamicCollision(a, b) ==
  <<[receiver |-> a.id, other |-> b.id], [receiver |-> b.id, other |-> a.id]>>

RECURSIVE InnerLoop(_, _, _, _)
\* for (let j = ...; j < entities.length; j++) of _handleDynamicCollisions
InnerLoop(es, i, j, hi) ==
  IF j > hi THEN <<>>
  ELSE (IF CheckCollision(es[i], es[j]) THEN ResolveDynamicCollision(es[i], es[j]) ELSE <<>>)
         \o InnerLoop(es, i, j + 1, hi)

RECURSIVE handleDynamicCollisions_everyOther(_, _, _, _)
\* _handleDynamicCollisions whose inner loop visits every other entity of the batch
handleDynamicCollisions_everyOther(es, lo, i, hi) ==
  IF i > hi THEN <<>>
  ELSE InnerLoop(es, i, lo, i - 1) \o InnerLoop(es, i, i + 1, hi)
         \o handleDynamicCollisions_everyOther(es, lo, i + 1, hi)

RECURSIVE handleDynamicCollisions(_, _, _, _)
(* _handleDynamicCollisions(entities) for the batch es[lo..hi], from entity *)
(* i on: the callbacks invoked, in order.                                   *)
handleDynamicCollisions(es, lo, i, hi) ==
  IF i > hi THEN <<>>
  ELSE InnerLoop(es, i, i + 1, hi) \o handleDynamicCollisions(es, lo, i + 1, hi)

RECURSIVE Batches(_, _)
\* the loop over the batches of PhysicsSystem.update, from batch b on
Batches(es, b) ==
  LET startIdx == b * batchSize
      endIdx == IF (b + 1) * batchSize < Len(es) THEN (b + 1) * batchSize ELSE Len(es)
  IN IF startIdx >= Len(es) THEN <<>>
     ELSE handleDynamicCollisions(es, startIdx + 1, startIdx + 1, endIdx)
            \o Batches(es, b + 1)

\* GameEngine.addEntity(entity), called while the game is set up
AddEntity ==
  /\ Len(physEntities) < MaxEntities
  /\ physCalls = 0
  /\ \E start \in EntityStarts :
       physEntities' = Append(physEntities, NewEntity(Len(physEntities) + 1, start))
  /\ UNCHANGED <<physWasmInterface, physGameEngine, wasmPhysicsSystem, physCall, physCalls>>
  /\ UNCHANGED <<enemyVars, aiVars, loaderVars, pathVars, netVars, laterVars>>

\* PhysicsSystem.setGameEngine(gameEngine)
PhysSetGameEngine ==
  /\ ~physGameEngine
  /\ physGameEngine' = TRUE
  /\ UNCHANGED <<physWasmInterface, physEntities, wasmPhysicsSystem, physCall, physCalls>>
  /\ UNCHANGED <<enemyVars, aiVars, loaderVars, pathVars, netVars, laterVars>>

\* PhysicsSystem.initWasm(): the awaited initWasm() resolves to the instance
PhysInitWasm ==
  /\ ~physWasmInterface
  /\ physWasmInterface' = TRUE
  /\ UNCHANGED <<physGameEngine, physEntities, wasmPhysicsSystem, physCall, physCalls>>
  /\ UNCHANGED <<enemyVars, aiVars, loaderVars, pathVars, netVars, laterVars>>

(* PhysicsSystem.update(deltaTime): every batch gets its gravity step and   *)
(* then its dynamic collisions; entities of different batches do not        *)
(* influence each other, so all gravity steps are taken first here.         *)
PhysUpdate ==
  /\ physCalls < MaxPhysCalls
  /\ \E deltaTime \in TickDeltaTimes :
       LET delegated == physWasmInterface /\ wasm.isLoaded
           stepped == [i \in DOMAIN physEntities |->
                         GravityStep(delegated, wasm, physEntities[i], deltaTime)]
       IN IF ~physGameEngine
            THEN /\ physCall' = [physCall EXCEPT !.op = "update", !.path = "none",
                                   !.args = [deltaTime |-> deltaTime], !.out = <<>>]
                 /\ UNCHANGED physEntities
            ELSE /\ physEntities' = stepped
                 /\ physCall' = [physCall EXCEPT !.op = "update",
                                   !.path = IF delegated THEN "delegated" ELSE "js",
                                   !.args = [deltaTime |-> deltaTime],
                                   !.out = Batches(stepped, 0)]
  /\ physCalls' = physCalls + 1
  /\ UNCHANGED <<physWasmInterface, physGameEngine, wasmPhysicsSystem>>
  /\ UNCHANGED <<enemyVars, aiVars, loaderVars, pathVars, netVars, laterVars>>

PhysicsNext == AddEntity \/ PhysSetGameEngine \/ PhysInitWasm \/ WasmInitFallback \/ PhysUpdate

\* the number of onCollision(other) callbacks the entity `receiver` got in the last tick
Notified(receiver, other) ==
  Cardinality({k \in DOMAIN physCall.out :
                 physCall.out[k] = [receiver |-> receiver, other |-> other]})

\* the last call was a physics tick that processed the entities
Ticked == physCall.op = "update" /\ physCall.path # "none"

\* the callbacks of the last tick, as a set
NotifiedPairs == {physCall.out[k] : k \in DOMAIN physCall.out}

\* the callbacks due in the present positions: one per entity of each overlapping pair
OverlappingPairs ==
  {p \in [receiver : DOMAIN physEntities, other : DOMAIN physEntities] :
     p.receiver # p.other /\ CheckCollision(physEntities[p.receiver], physEntities[p.other])}

C15_AllPairsChecked ==
  Ticked =>
    \A i \in DOMAIN physEntities : \A j \in DOMAIN physEntities :
      i # j /\ CheckCollision(physEntities[i], physEntities[j]) =>
        Notified(i, j) >= 1 /\ Notified(j, i) >= 1

(* C16: a physics tick leaves every entity at position.y >= 0, and an       *)
(* entity whose integrated position.y is below 0 ends the tick with         *)
(* position.y = 0, velocity.y = 0 and marked grounded.                      *)
C16_GroundClamp ==
  [][physCalls' = physCalls + 1 /\ physCall'.op = "update" /\ physCall'.path # "none" =>
       \A i \in DOMAIN physEntities :
         LET e == physEntities[i]
             deltaTime == physCall'.args.deltaTime
             vy == e.vy - gravity * deltaTime
             y == e.y + (vy * deltaTime) \div 100
         IN /\ physEntities'[i].y >= 0
            /\ y < 0 => /\ physEntities'[i].y = 0
                        /\ physEntities'[i].vy = 0
                        /\ physEntities'[i].onGround = "true"]_vars

(* C17: for every entity and frame time the gravity step delegated to the   *)
(* WasmInterface and the step of the PhysicsSystem itself give the same     *)
(* position, velocity and grounded marking.                                 *)
C17_GravityStepsEquivalent ==
  wasm.isLoaded =>
    \A i \in DOMAIN physEntities : \A deltaTime \in PhysDeltaTimes :
      DelegatedGravityStep(wasm, physEntities[i], deltaTime)
        = JsGravityStep(physEntities[i], deltaTime)

----------------------------------------------------------------------------
(* AISystem: pathfinding *)

\* positions, in thousandths of a world unit
PathPoints ==
  {[x |-> 0, y |-> 0, z |-> 0], [x |-> 0, y |-> 2000, z |-> 0],
   [x |-> 60000, y |-> 0, z |-> 0]}

\* createMockPathfinder: gridSize
pathGridSize == 100

\* AISystem.findPath: offset that makes the grid coordinates positive
gridOffset == 50

\* Math.floor(position / gridSize) + 50, gridSize = 1 world unit
GridCoordinate(c) == (c \div 1000) + gridOffset

\* createMockPathfinder().findPath(startX, startY, endX, endY)
MockFindPath(startX, startY, endX, endY) ==
  ~(startX >= pathGridSize \/ startY >= pathGridSize
      \/ endX >= pathGridSize \/ endY >= pathGridSize)

(* WasmInterface.findPath: the pathfinder is only ever the mock that       *)
(* initFallback() installs, which has no find_path method.                 *)
WasmInterfaceFindPath(w, startX, startY, endX, endY) ==
  IF w.pathfinder THEN MockFindPath(startX, startY, endX, endY) ELSE TRUE

(* AISystem.hasLineOfSight(fromPosition, toPosition); intersects is        *)
(* whether the ray cast against the level geometry hits something.         *)
hasLineOfSight(engine, levelSet, intersects) ==
  IF ~engine THEN [error |-> "none", value |-> FALSE]
  ELSE IF ~levelSet THEN [error |-> "TypeError", value |-> FALSE]
  ELSE [error |-> "none", value |-> ~intersects]

\* the waypoint halfway between the two positions, kept on ground level
Midpoint(startPosition, endPosition) ==
  [x |-> (startPosition.x + endPosition.x) \div 2, y |-> 1000,
   z |-> (startPosition.z + endPosition.z) \div 2]

\* AISystem.findPath(startPosition, endPosition)
findPath(w, interface, engine, levelSet, startPosition, endPosition, intersects) ==
  IF /\ interface /\ w.isLoaded
     /\ WasmInterfaceFindPath(w, GridCoordinate(startPosition.x), GridCoordinate(startPosition.z),
                              GridCoordinate(endPosition.x), GridCoordinate(endPosition.z))
    THEN [error |-> "none", returned |-> <<endPosition>>]
    ELSE LET los == hasLineOfSight(engine, levelSet, intersects)
         IN IF los.error # "none" THEN [error |-> los.error, returned |-> <<>>]
            ELSE IF los.value THEN [error |-> "none", returned |-> <<endPosition>>]
            ELSE [error |-> "none",
                  returned |-> <<Midpoint(startPosition, endPosition), endPosition>>]

PathInit ==
  /\ aiGameEngine = FALSE
  /\ level = FALSE
  /\ pathCall = [op |-> "none", startPosition |-> [x |-> 0, y |-> 0, z |-> 0],
                 endPosition |-> [x |-> 0, y |-> 0, z |-> 0], loaded |-> FALSE,
                 error |-> "none", returned |-> <<>>]

\* AISystem.setGameEngine(gameEngine)
AISetGameEngine ==
  /\ ~aiGameEngine
  /\ aiGameEngine' = TRUE
  /\ UNCHANGED <<level, pathCall>>
  /\ UNCHANGED <<enemyVars, aiVars, loaderVars, physVars, netVars, laterVars>>

\* GameEngine.setLevel(level)
SetLevel ==
  /\ ~level
  /\ level' = TRUE
  /\ UNCHANGED <<aiGameEngine, pathCall>>
  /\ UNCHANGED <<enemyVars, aiVars, loaderVars, physVars, netVars, laterVars>>

\* a call of AISystem.findPath(startPosition, endPosition)
AIFindPath ==
  /\ \E startPosition \in PathPoints, endPosition \in PathPoints, intersects \in BOOLEAN :
       LET r == findPath(wasm, aiWasmInterface, aiGameEngine, level,
                         startPosition, endPosition, intersects)
       IN pathCall' = [op |-> "findPath", startPosition |-> startPosition,
                       endPosition |-> endPosition,
                       loaded |-> aiWasmInterface /\ wasm.isLoaded,
                       error |-> r.error, returned |-> r.returned]
  /\ UNCHANGED <<aiGameEngine, level>>
  /\ UNCHANGED <<enemyVars, aiVars, loaderVars, physVars, netVars, laterVars>>

PathNext ==
  WasmInit \/ WasmInitFallback \/ AIInitWasm \/ AISetGameEngine \/ SetLevel \/ AIFindPath

(* C19: findPath(P, P) raises no error and returns the one-element list    *)
(* [P], whatever is loaded and attached.                                    *)
C19_FindPathToSelf ==
  pathCall.op = "findPath" /\ pathCall.startPosition = pathCall.endPosition =>
    pathCall.error = "none" /\ pathCall.returned = <<pathCall.endPosition>>

----------------------------------------------------------------------------
(* Operations that name an enemy: removal and the network messages *)

\* the Enemy objects a caller can hold: those constructed so far and one never added
KnownObjects == 1 .. nextId

\* the enemy with this identity is in EnemyManager.enemies
Registered(id) == \E i \in DOMAIN enemies : enemies[i].id = id

\* EnemyManager.removeEnemy(enemy): indexOf and splice
removeEnemy(es, id) == SelectSeq(es, LAMBDA e : e.id # id)

NetInit ==
  /\ enemyManagerSet = FALSE
  /\ netCall = [id |-> 0, registered |-> FALSE]

\* GameEngine.setEnemyManager(enemyManager)
SetEnemyManager ==
  /\ ~enemyManagerSet
  /\ enemyManagerSet' = TRUE
  /\ UNCHANGED netCall
  /\ UNCHANGED <<enemyVars, aiVars, loaderVars, physVars, pathVars, laterVars>>

\* a call of EnemyManager.removeEnemy(enemy)
RemoveEnemy ==
  /\ calls < MaxCalls
  /\ NoContinuationPending
  /\ \E id \in KnownObjects :
       /\ enemies' = removeEnemy(enemies, id)
       /\ netCall' = [id |-> id, registered |-> Registered(id)]
  /\ lastCall' = Call("removeEnemy", "none")
  /\ calls' = calls + 1
  /\ UNCHANGED <<nextId, enemiesKilled, events, timers, bossSpawned>>
  /\ UNCHANGED enemyManagerSet
  /\ UNCHANGED <<aiVars, loaderVars, physVars, pathVars, laterVars>>

(* What the two network handlers share: without an enemy manager they      *)
(* return; with one they call enemyManager.getEnemyById, which             *)
(* EnemyManager does not define, and the TypeError leaves the handler.     *)
NetworkHandler(op) ==
  /\ calls < MaxCalls
  /\ NoContinuationPending
  /\ \E id \in KnownObjects :
       netCall' = [id |-> id, registered |-> Registered(id)]
  /\ lastCall' = Call(op, IF enemyManagerSet THEN "TypeError" ELSE "none")
  /\ calls' = calls + 1
  /\ UNCHANGED <<enemies, nextId, enemiesKilled, events, timers, bossSpawned>>
  /\ UNCHANGED enemyManagerSet
  /\ UNCHANGED <<aiVars, loaderVars, physVars, pathVars, laterVars>>

\* MultiplayerManager.updateEnemy(update), on an 'enemy_update' message
NetworkUpdateEnemy == NetworkHandler("updateEnemy")

\* MultiplayerManager.removeEnemy(enemyId), on an 'enemy_remove' message
NetworkRemoveEnemy == NetworkHandler("networkRemoveEnemy")

RegistryNext ==
  SpawnEnemyOfType \/ CreateMeshResume \/ SetEnemyManager \/ RemoveEnemy
    \/ NetworkUpdateEnemy \/ NetworkRemoveEnemy

\* the operations on one named enemy
NamingOps == {"removeEnemy", "updateEnemy", "networkRemoveEnemy"}

(* C20: removing an enemy that is not in the list, and an enemy update or  *)
(* removal from the network for an unknown enemy, raise no exception and   *)
(* change nothing.                                                          *)
C20_UnregisteredIsNoOp ==
  [][calls' = calls + 1 /\ lastCall'.op \in NamingOps /\ ~netCall'.registered =>
       /\ lastCall'.error = "none"
       /\ UNCHANGED <<enemies, nextId, enemiesKilled, events, timers, bossSpawned>>]_vars

----------------------------------------------------------------------------
(* The death timer of an enemy *)

LifeInit == removedFromScene = {}

(* The setTimeout callback of Enemy.die, 10 s after the death: it takes    *)
(* the mesh out of the scene.  All timers have the same delay, so they     *)
(* fire in the order they were scheduled.                                  *)
DeathTimerFires ==
  /\ timers # <<>>
  /\ NoContinuationPending
  /\ removedFromScene' = removedFromScene \cup {Head(timers)}
  /\ timers' = Tail(timers)
  /\ lastCall' = Call("deathTimer", "none")
  /\ UNCHANGED <<enemies, nextId, enemiesKilled, events, bossSpawned, calls>>
  /\ UNCHANGED <<earlierVars, serverVars, coolVars, alertVars, singletonVars, spawnVars, loopVars>>

LifeNext ==
  Update \/ SpawnEnemyOfType \/ CreateMeshResume \/ TakeDamage \/ DeathTimerFires

(* C21: when the grace period of a dead enemy has elapsed, the enemy is    *)
(* no longer in the enemy list of the EnemyManager.                        *)
C21_DeadEnemyIsRemoved ==
  [][timers # <<>> /\ timers' = Tail(timers) /\ lastCall'.op = "deathTimer" =>
       ~\E i \in DOMAIN enemies' : enemies'[i].id = Head(timers)]_vars

----------------------------------------------------------------------------
(* MultiplayerServer: the server tick *)

(* Positions lie on the x axis at y = 1, z = 0, in thousandths of a unit;  *)
(* times are in hundredths of a second.                                    *)

MaxServerEnemies == 1
MaxProjectiles == 1

\* socket messages handled in one behaviour
MaxServerEvents == 3

\* the window of the attack scenario: 3.0 s in range
AttackHorizon == 300

\* deltaTime of a server tick, for ticks that come late: 0.15 s and 0.3 s
ServerDeltaTimes == {15, 30}

Sockets == {"s1", "s2"}
PlayerXs == {27000, 29000}
ShotXs == {22000, 23000}
ShotDamages == {25}

\* spawnEnemies: Math.cos(angle) * spawnRadius for angle = 0
ServerSpawnXs == {30000}

\* spawnEnemies: Math.floor(Math.random() * 4); the types drawn here
ServerEnemyTypeDraws == {0}

playerMaxHealth == 100

\* speed: 50 units per second; lifetime: 2 seconds, in hundredths
projectileSpeed == 50
projectileLifetime == 200

\* the radius of a player and of an enemy in updateProjectiles, in thousandths
hitRadius == 1000

Abs(n) == IF n < 0 THEN -n ELSE n

\* calculateDistance(pos1, pos2)
calculateDistance(x1, x2) == Abs(x1 - x2)

\* calculateDirection(from, to).x
calculateDirection(from, to) == IF to = from THEN 0 ELSE IF to > from THEN 1 ELSE -1

\* the enemy object that spawnEnemies creates
NewServerEnemy(id, enemyType, x) ==
  [id |-> id, type |-> enemyType, x |-> x,
   health |-> 100 + enemyType * 25, maxHealth |-> 100 + enemyType * 25,
   damage |-> 10 + enemyType * 5, speed |-> 50 - enemyType * 5,
   attackRange |-> 2000 + enemyType * 500, attackRate |-> 100 + enemyType * 20,
   attackTimer |-> 100 + enemyType * 20, state |-> "chase"]

NewLog == [rangeTime |-> 0, attacks |-> 0, lastAttackAt |-> -1]

\* the index of the entry with this id in a list, 0 when there is none
IndexOf(list, id) ==
  IF \E i \in DOMAIN list : list[i].id = id
    THEN CHOOSE i \in DOMAIN list : list[i].id = id
    ELSE 0

\* damagePlayer(playerId, damage)
damagePlayer(ps, playerId, damage) ==
  LET i == IndexOf(ps, playerId)
  IN IF i = 0 THEN ps
     ELSE IF ps[i].health - damage <= 0
       THEN [ps EXCEPT ![i].health = playerMaxHealth, ![i].x = 0]
       ELSE [ps EXCEPT ![i].health = @ - damage]

\* damageEnemy(enemyId, damage)
damageEnemy(es, enemyId, damage) ==
  LET i == IndexOf(es, enemyId)
  IN IF i = 0 THEN es
     ELSE IF es[i].health - damage <= 0
       THEN SelectSeq(es, LAMBDA e : e.id # enemyId)
       ELSE [es EXCEPT ![i].health = @ - damage]

\* updateEnemies: the nearest player; the first one wins among equally near ones
NearestPlayer(ps, x) ==
  IF ps = <<>> THEN 0
  ELSE CHOOSE i \in DOMAIN ps :
         \A j \in DOMAIN ps :
           \/ calculateDistance(x, ps[i].x) < calculateDistance(x, ps[j].x)
           \/ calculateDistance(x, ps[i].x) = calculateDistance(x, ps[j].x) /\ i <= j

RECURSIVE updateEnemies(_, _, _, _, _)
(* updateEnemies(deltaTime), from the i-th enemy on; st holds the enemies, *)
(* the players and the attack log.                                         *)
updateEnemies(i, es, ps, log, deltaTime) ==
  IF i > Len(es) THEN [enemies |-> es, players |-> ps, log |-> log]
  ELSE
    LET enemy == es[i]
        n == NearestPlayer(ps, enemy.x)
    IN IF n = 0 THEN updateEnemies(i + 1, es, ps, log, deltaTime)
       ELSE IF calculateDistance(enemy.x, ps[n].x) > enemy.attackRange
         THEN updateEnemies(i + 1,
                [es EXCEPT ![i].x = @ + calculateDirection(enemy.x, ps[n].x)
                                          * enemy.speed * deltaTime,
                           ![i].state = "chase"],
                ps, [log EXCEPT ![enemy.id] = NewLog], deltaTime)
         ELSE
           LET timer == enemy.attackTimer - deltaTime
               fires == timer <= 0
               now == log[enemy.id].rangeTime + deltaTime
           IN updateEnemies(i + 1,
                [es EXCEPT ![i].state = "attack",
                           ![i].attackTimer = IF fires THEN enemy.attackRate ELSE timer],
                IF fires THEN damagePlayer(ps, ps[n].id, enemy.damage) ELSE ps,
                [log EXCEPT ![enemy.id] =
                   [rangeTime |-> now,
                    attacks |-> IF fires THEN @.attacks + 1 ELSE @.attacks,
                    lastAttackAt |-> IF fires THEN now ELSE @.lastAttackAt]],
                deltaTime)

\* the first player the projectile collides with, 0 when there is none
HitPlayer(ps, projectile) ==
  LET C == {i \in DOMAIN ps : /\ ps[i].id # projectile.ownerId
                              /\ calculateDistance(projectile.x, ps[i].x) < hitRadius}
  IN IF C = {} THEN 0 ELSE CHOOSE i \in C : \A j \in C : i <= j

\* the first enemy the projectile collides with, 0 when there is none
HitEnemy(es, projectile) ==
  LET C == {i \in DOMAIN es : calculateDistance(projectile.x, es[i].x) < hitRadius}
  IN IF C = {} THEN 0 ELSE CHOOSE i \in C : \A j \in C : i <= j

RECURSIVE updateProjectiles(_, _, _, _, _, _, _)
(* updateProjectiles(deltaTime), from the k-th projectile on.  The `break` *)
(* after a player was hit leaves the loop over the players only: the loop  *)
(* over the enemies runs for the same projectile.                          *)
updateProjectiles(k, prs, kept, ps, es, made, deltaTime) ==
  IF k > Len(prs)
    THEN [projectiles |-> kept, players |-> ps, enemies |-> es, hits |-> made]
  ELSE
    LET moved == [prs[k] EXCEPT !.x = @ + prs[k].direction * projectileSpeed * 10 * deltaTime,
                                !.lifetime = @ - deltaTime]
        hp == HitPlayer(ps, moved)
        ps1 == IF hp # 0 THEN damagePlayer(ps, ps[hp].id, moved.damage) ELSE ps
        made1 == IF hp # 0
                   THEN Append(made, [projectile |-> moved.id, kind |-> "player",
                                      target |-> ps[hp].id])
                   ELSE made
        he == HitEnemy(es, moved)
        es1 == IF he # 0 THEN damageEnemy(es, es[he].id, moved.damage) ELSE es
        made2 == IF he # 0
                   THEN Append(made1, [projectile |-> moved.id, kind |-> "enemy",
                                       target |-> es[he].id])
                   ELSE made1
    IN IF moved.lifetime <= 0
         THEN updateProjectiles(k + 1, prs, kept, ps, es, made, deltaTime)
         ELSE updateProjectiles(k + 1, prs,
                IF hp # 0 \/ he # 0 THEN kept ELSE Append(kept, moved),
                ps1, es1, made2, deltaTime)

ServerInit ==
  /\ players = <<>>
  /\ serverEnemies = <<>>
  /\ projectiles = <<>>
  /\ enemyIdCounter = 0
  /\ projectileIdCounter = 0
  /\ attackLog = [id \in {} |-> NewLog]
  /\ hits = <<>>
  /\ serverCall = [op |-> "none", deltaTime |-> 0]
  /\ serverEvents = 0

\* handlePlayerJoin(socket, player)
HandlePlayerJoin ==
  /\ serverEvents < MaxServerEvents
  /\ \E socket \in Sockets, x \in PlayerXs :
       /\ IndexOf(players, socket) = 0
       /\ players' = Append(players, [id |-> socket, x |-> x, health |-> playerMaxHealth])
  /\ serverCall' = [op |-> "player_join", deltaTime |-> 0]
  /\ serverEvents' = serverEvents + 1
  /\ UNCHANGED <<serverEnemies, projectiles, enemyIdCounter, projectileIdCounter, attackLog, hits>>
  /\ UNCHANGED <<enemyVars, earlierVars, lifeVars, coolVars, alertVars, singletonVars, spawnVars, loopVars>>

\* handlePlayerUpdate(socket, update)
HandlePlayerUpdate ==
  /\ serverEvents < MaxServerEvents
  /\ \E socket \in Sockets, x \in PlayerXs :
       /\ IndexOf(players, socket) # 0
       /\ players' = [players EXCEPT ![IndexOf(players, socket)].x = x]
  /\ serverCall' = [op |-> "player_update", deltaTime |-> 0]
  /\ serverEvents' = serverEvents + 1
  /\ UNCHANGED <<serverEnemies, projectiles, enemyIdCounter, projectileIdCounter, attackLog, hits>>
  /\ UNCHANGED <<enemyVars, earlierVars, lifeVars, coolVars, alertVars, singletonVars, spawnVars, loopVars>>

\* handlePlayerShot(socket, shot)
HandlePlayerShot ==
  /\ serverEvents < MaxServerEvents
  /\ projectileIdCounter < MaxProjectiles
  /\ \E socket \in Sockets, x \in ShotXs, damage \in ShotDamages :
       /\ IndexOf(players, socket) # 0
       /\ projectiles' = Append(projectiles,
            [id |-> projectileIdCounter, ownerId |-> socket, x |-> x, direction |-> 1,
             damage |-> damage, lifetime |-> projectileLifetime])
  /\ projectileIdCounter' = projectileIdCounter + 1
  /\ serverCall' = [op |-> "player_shot", deltaTime |-> 0]
  /\ serverEvents' = serverEvents + 1
  /\ UNCHANGED <<players, serverEnemies, enemyIdCounter, attackLog, hits>>
  /\ UNCHANGED <<enemyVars, earlierVars, lifeVars, coolVars, alertVars, singletonVars, spawnVars, loopVars>>

(* update(deltaTime): updateEnemies, updateProjectiles, spawnEnemies.      *)
(* spawnEnemies spawns when Math.random() is at most the spawn chance      *)
(* 5 / players * deltaTime, which it can fail to be only when the chance   *)
(* is below 1.                                                             *)
ServerUpdate ==
  \E deltaTime \in ServerDeltaTimes, spawn \in BOOLEAN, enemyType \in ServerEnemyTypeDraws,
     spawnX \in ServerSpawnXs :
    LET a == updateEnemies(1, serverEnemies, players, attackLog, deltaTime)
        b == updateProjectiles(1, projectiles, <<>>, a.players, a.enemies, <<>>, deltaTime)
        room == Len(b.players) # 0 /\ Len(b.enemies) < 5 * Len(b.players)
        live == {b.enemies[i].id : i \in DOMAIN b.enemies}
    IN /\ \A id \in DOMAIN attackLog : attackLog[id].rangeTime + deltaTime <= AttackHorizon
       /\ spawn => room /\ enemyIdCounter < MaxServerEnemies
       /\ ~spawn /\ room => 5 * deltaTime < 100 * Len(b.players)
       /\ players' = b.players
       /\ projectiles' = b.projectiles
       /\ hits' = b.hits
       /\ IF spawn
            THEN /\ serverEnemies' = Append(b.enemies,
                                            NewServerEnemy(enemyIdCounter, enemyType, spawnX))
                 /\ enemyIdCounter' = enemyIdCounter + 1
                 /\ attackLog' = [id \in live \cup {enemyIdCounter} |->
                                    IF id \in live THEN a.log[id] ELSE NewLog]
            ELSE /\ serverEnemies' = b.enemies
                 /\ UNCHANGED enemyIdCounter
                 /\ attackLog' = [id \in live |-> a.log[id]]
       /\ serverCall' = [op |-> "update", deltaTime |-> deltaTime]
       /\ UNCHANGED <<projectileIdCounter, serverEvents>>
       /\ UNCHANGED <<enemyVars, earlierVars, lifeVars, coolVars, alertVars, singletonVars, spawnVars, loopVars>>

\* the server with players that move: enemies chase and attack
ServerAttackNext == HandlePlayerJoin \/ HandlePlayerUpdate \/ ServerUpdate

\* the server with players that shoot
ServerProjectileNext == HandlePlayerJoin \/ HandlePlayerShot \/ ServerUpdate

(* C22: an enemy that has been ticked for 3.0 s with its target in range   *)
(* all the time has attacked exactly 3 times, and two attacks in a row     *)
(* are at least attackRate apart.                                          *)
C22_ThreeAttacksInThreeSeconds ==
  /\ [](\A id \in DOMAIN attackLog :
          attackLog[id].rangeTime = AttackHorizon => attackLog[id].attacks = 3)
  /\ [][\A i \in DOMAIN serverEnemies' :
          LET id == serverEnemies'[i].id
          IN id \in DOMAIN attackLog /\ attackLog[id].lastAttackAt >= 0
               /\ attackLog'[id].attacks = attackLog[id].attacks + 1 =>
                 attackLog'[id].lastAttackAt - attackLog[id].lastAttackAt
                   >= serverEnemies'[i].attackRate]_vars

(* C30: in a tick a projectile damages at most one target, a projectile   *)
(* that has hit or whose lifetime is over is no longer in the projectile  *)
(* map after the tick, and only projectiles that were in the map before   *)
(* the tick damage anything.                                               *)
C30_ProjectileDamagesOnce ==
  [][serverCall'.op = "update" =>
       /\ \A k \in DOMAIN hits', l \in DOMAIN hits' :
            hits'[k].projectile = hits'[l].projectile => k = l
       /\ \A k \in DOMAIN hits' :
            /\ \E i \in DOMAIN projectiles : projectiles[i].id = hits'[k].projectile
            /\ ~\E i \in DOMAIN projectiles' : projectiles'[i].id = hits'[k].projectile
       /\ \A i \in DOMAIN projectiles' : projectiles'[i].lifetime > 0]_vars

----------------------------------------------------------------------------
(* The FSM state of an enemy *)

\* the enumeration of the states
EnemyStates == FsmStates \cup {"dead"}

\* values of `state` that are not in the enumeration: unset, and an unknown name
UnknownStates == {"undefined", "stunned"}

\* spawning, damage, ticks and the network update of an enemy
FsmNext ==
  Update \/ SpawnEnemyOfType \/ CreateMeshResume \/ TakeDamage \/ SetEnemyManager
    \/ NetworkUpdateEnemy

----------------------------------------------------------------------------
(* AISystem.update: the cooldown slots of the behavior contexts *)

\* for (let i = 1; i <= 10; i++)
cooldownSlotCount == 10

\* the slots a tree sets, and the cooldowns it sets them to (hundredths of a second)
GatedSlots == {1, 10}
CooldownValues == {5, 20}

CoolInit == cooldownSlots = [id \in EntityIds |-> [slot \in 1 .. cooldownSlotCount |-> 0]]

(* A leaf of the behavior tree of an entity starts a cooldown:             *)
(* context.set_value('cooldown_<slot>', value).                            *)
TreeSetsCooldown ==
  /\ \E id \in DOMAIN behaviorContexts, slot \in GatedSlots, value \in CooldownValues :
       cooldownSlots' = [cooldownSlots EXCEPT ![id][slot] = value]
  /\ UNCHANGED <<enemyVars, aiVars, loaderVars, physVars, pathVars, netVars, lifeVars, serverVars, alertVars, singletonVars, spawnVars, loopVars>>

\* AISystem.update(deltaTime)
AIUpdate ==
  /\ \E deltaTime \in DeltaTimes :
       cooldownSlots' =
         [id \in EntityIds |->
            IF id \in DOMAIN behaviorContexts
              THEN [slot \in 1 .. cooldownSlotCount |->
                      IF cooldownSlots[id][slot] > 0
                        THEN cooldownSlots[id][slot] - deltaTime
                        ELSE cooldownSlots[id][slot]]
              ELSE cooldownSlots[id]]
  /\ UNCHANGED <<enemyVars, aiVars, loaderVars, physVars, pathVars, netVars, lifeVars, serverVars, alertVars, singletonVars, spawnVars, loopVars>>

CooldownNext ==
  WasmInit \/ WasmInitFallback \/ AIInitWasm \/ AICreateBehaviorTree \/ TreeSetsCooldown
    \/ AIUpdate

----------------------------------------------------------------------------
(* EnemyManager.alertNearbyEnemies: who is notified *)

\* where the enemies of the alert scenario are spawned: 20 units apart
AlertSpawnXs == {0, 20000}

\* the types spawned in the alert scenario: one that calls reinforcements and one that does not
AlertTypeArgs == {TypeArg("string", "GRUNT"), TypeArg("string", "BOSS")}

AlertInit == alertLog = [spotter |-> 0, heard |-> {}]

\* the ids of the enemies whose onPlayerHeard the call alertNearbyEnemies(spotter, player) invokes
Heard(es, spotter) ==
  LET distance(i) == IF es[i].position >= es[spotter].position
                       THEN es[i].position - es[spotter].position
                       ELSE es[spotter].position - es[i].position
  IN {es[i].id : i \in {j \in DOMAIN es :
                          j # spotter /\ ~es[j].isAware /\ distance(j) <= alertRadius * 1000}}

\* spawnEnemyOfType(position, enemyType, difficulty) at one of the two places
SpawnEnemyOfTypeAt ==
  /\ calls < MaxCalls
  /\ NoContinuationPending
  /\ \E typeArg \in AlertTypeArgs, position \in AlertSpawnXs, difficulty \in DifficultyPct :
       /\ enemies' = Append(enemies, Spawned(nextId, typeArg, position, difficulty))
       /\ nextId' = nextId + 1
       /\ lastCall' = Call("spawnEnemyOfType", "none")
  /\ calls' = calls + 1
  /\ UNCHANGED <<enemiesKilled, events, timers, bossSpawned>>
  /\ UNCHANGED nonEnemyVars

\* a call of EnemyManager.alertNearbyEnemies(spotter, player)
AlertSpotted ==
  /\ calls < MaxCalls
  /\ NoContinuationPending
  /\ \E spotter \in DOMAIN enemies :
       /\ enemies' = alertNearbyEnemies(enemies, spotter)
       /\ alertLog' = [spotter |-> enemies[spotter].id, heard |-> Heard(enemies, spotter)]
  /\ lastCall' = Call("alertNearbyEnemies", "none")
  /\ calls' = calls + 1
  /\ UNCHANGED <<nextId, enemiesKilled, events, timers, bossSpawned>>
  /\ UNCHANGED <<earlierVars, lifeVars, serverVars, coolVars, singletonVars, spawnVars, loopVars>>

AlertNext == SpawnEnemyOfTypeAt \/ CreateMeshResume \/ TakeDamage \/ AlertSpotted

(* C25: an alert notifies only enemies other than the spotter that are     *)
(* not aware and at most 15 units from the spotter, and it notifies        *)
(* nobody when the type of the spotter does not call reinforcements.       *)
C25_AlertOnlyOnReinforcementCall ==
  [][calls' = calls + 1 /\ lastCall'.op = "alertNearbyEnemies" =>
       \A i \in DOMAIN enemies, j \in DOMAIN enemies :
         enemies[i].id = alertLog'.spotter /\ enemies[j].id \in alertLog'.heard =>
           /\ i # j
           /\ ~enemies[j].isAware
           /\ enemies[j].position - enemies[i].position <= alertRadius * 1000
           /\ enemies[i].position - enemies[j].position <= alertRadius * 1000
           /\ BehaviorTypeOf(enemies[i]) = "boss"]_vars

----------------------------------------------------------------------------
(* EnemyManager.spawnEnemy: the type of the spawned enemy *)

SpawnInit == lastSpawn = [type |-> "none", difficulty |-> 100]

\* EnemyManager.spawnEnemy() with the game engine set and spawn points generated
SpawnEnemy ==
  /\ calls < MaxCalls
  /\ NoContinuationPending
  /\ \E typeName \in RandomEnemyTypes, position \in SpawnPointsX, difficulty \in DifficultyPct :
       /\ enemies' = Append(enemies, spawnEnemy(nextId, typeName, position, difficulty))
       /\ lastSpawn' = [type |-> typeName, difficulty |-> difficulty]
  /\ nextId' = nextId + 1
  /\ lastCall' = Call("spawnEnemy", "none")
  /\ calls' = calls + 1
  /\ UNCHANGED <<enemiesKilled, events, timers, bossSpawned>>
  /\ UNCHANGED <<earlierVars, lifeVars, serverVars, coolVars, alertVars, singletonVars, loopVars>>

SpawnNext == SpawnEnemy \/ CreateMeshResume \/ TakeDamage

(* C27: the enemy pushed by spawnEnemy() has the damage, speed, attack      *)
(* range and attack cooldown of the type getRandomEnemyType() returned,     *)
(* and that type's health scaled by the difficulty.                        *)
C27_SpawnedHasChosenTypeStats ==
  [][calls' = calls + 1 /\ lastCall'.op = "spawnEnemy" =>
       LET e == enemies'[Len(enemies')]
           enemyType == EnemyTypes[lastSpawn'.type]
       IN /\ e.damage = enemyType.damage
          /\ e.speed = enemyType.speed
          /\ e.attackRange = enemyType.attackRange
          /\ e.attackCooldown = enemyType.attackRate
          /\ e.health = (enemyType.health * lastSpawn'.difficulty) \div 100
          /\ e.maxHealth = (enemyType.health * lastSpawn'.difficulty) \div 100]_vars

----------------------------------------------------------------------------
(* GameEngine: start, stop, gameOver, restart and the frame callbacks *)

MaxLoopCalls == 5

\* everything the game loop leaves alone
nonLoopVars ==
  <<earlierVars, lifeVars, serverVars, coolVars, alertVars, singletonVars, spawnVars>>

LoopInit ==
  /\ isRunning = FALSE
  /\ pendingFrames = 0
  /\ gameOverShown = FALSE
  /\ lastLoopCall = "none"
  /\ loopCalls = 0

\* start(): sets isRunning and requests a frame, unless the game is running
start ==
  IF ~isRunning
    THEN isRunning' = TRUE /\ pendingFrames' = pendingFrames + 1
    ELSE UNCHANGED <<isRunning, pendingFrames>>

\* EnemyManager.reset(): the enemy list is emptied and the boss may be spawned again
reset ==
  /\ enemies' = <<>>
  /\ bossSpawned' = FALSE

Start ==
  /\ loopCalls < MaxLoopCalls
  /\ start
  /\ lastLoopCall' = "start"
  /\ loopCalls' = loopCalls + 1
  /\ UNCHANGED <<gameOverShown, enemyVars, nonLoopVars>>

Stop ==
  /\ loopCalls < MaxLoopCalls
  /\ isRunning' = FALSE
  /\ lastLoopCall' = "stop"
  /\ loopCalls' = loopCalls + 1
  /\ UNCHANGED <<pendingFrames, gameOverShown, enemyVars, nonLoopVars>>

\* gameOver(): stop() and uiManager.showGameOver()
GameOver ==
  /\ loopCalls < MaxLoopCalls
  /\ isRunning' = FALSE
  /\ gameOverShown' = TRUE
  /\ lastLoopCall' = "gameOver"
  /\ loopCalls' = loopCalls + 1
  /\ UNCHANGED <<pendingFrames, enemyVars, nonLoopVars>>

\* restart(): the resets, then start()
Restart ==
  /\ loopCalls < MaxLoopCalls
  /\ reset
  /\ start
  /\ lastLoopCall' = "restart"
  /\ loopCalls' = loopCalls + 1
  /\ UNCHANGED <<nextId, enemiesKilled, events, timers, lastCall, calls>>
  /\ UNCHANGED <<gameOverShown, nonLoopVars>>

(* The browser runs one pending gameLoop callback.  It returns at once     *)
(* when the game is not running; otherwise it updates and renders the      *)
(* frame, during which the player may die (PlayerController calls          *)
(* gameOver()), and requests the next frame at its end.                    *)
GameLoopFrame ==
  /\ pendingFrames > 0
  /\ IF ~isRunning
       THEN /\ pendingFrames' = pendingFrames - 1
            /\ UNCHANGED <<isRunning, gameOverShown>>
       ELSE /\ pendingFrames' = pendingFrames
            /\ \E playerDies \in BOOLEAN :
                 /\ isRunning' = ~playerDies
                 /\ gameOverShown' = (gameOverShown \/ playerDies)
  /\ lastLoopCall' = "gameLoop"
  /\ UNCHANGED <<loopCalls, enemyVars, nonLoopVars>>

LoopNext == Start \/ Stop \/ GameOver \/ Restart \/ GameLoopFrame

(* C28: there is never more than one pending gameLoop callback, and a      *)
(* start() while the game is running requests none.                        *)
C28_OneLoopChain ==
  /\ [](pendingFrames <= 1)
  /\ [][isRunning /\ lastLoopCall' = "start" /\ loopCalls' = loopCalls + 1 =>
          pendingFrames' = pendingFrames]_vars

----------------------------------------------------------------------------
(* EnemyManager: the boss *)

(* playerMetrics.enemiesKilled when the scenario starts: one kill short of *)
(* the threshold, and at the threshold.  The enemy list is empty, as after *)
(* reset().                                                                *)
PriorKills == {bossSpawnThreshold - 1, bossSpawnThreshold}

BossEnemyInit ==
  /\ enemies = <<>>
  /\ nextId = 1
  /\ enemiesKilled \in PriorKills
  /\ events = <<>>
  /\ timers = <<>>
  /\ lastCall = Call("none", "none")
  /\ bossSpawned = FALSE
  /\ calls = 0

\* EnemyManager.reset()
Reset ==
  /\ calls < MaxCalls
  /\ reset
  /\ lastCall' = Call("reset", "none")
  /\ calls' = calls + 1
  /\ UNCHANGED <<nextId, enemiesKilled, events, timers>>
  /\ UNCHANGED nonEnemyVars

BossNext == Update \/ SpawnBoss \/ CreateMeshResume \/ TakeDamage \/ Reset

\* the BOSS enemies in the list: those added since the last reset()
Bosses(es) == {i \in DOMAIN es : es[i].enemyType = "BOSS"}

(* C29: the enemy list never holds more than one BOSS; after an update     *)
(* tick with the kill threshold reached, and after a spawnBoss() call, it  *)
(* holds exactly one; an update tick below the threshold adds none.        *)
C29_BossSpawnedOnce ==
  /\ [](Cardinality(Bosses(enemies)) <= 1)
  /\ [][calls' = calls + 1 /\ lastCall'.op = "update" =>
          IF enemiesKilled >= bossSpawnThreshold
            THEN Cardinality(Bosses(enemies')) = 1 /\ bossSpawned'
            ELSE Cardinality(Bosses(enemies')) = Cardinality(Bosses(enemies))]_vars
  /\ [][calls' = calls + 1 /\ lastCall'.op = "spawnBoss" =>
          Cardinality(Bosses(enemies')) = 1 /\ bossSpawned']_vars

(* the threshold was reached by a kill of the player, and the update tick  *)
(* after it spawned the boss                                               *)
C29_Witness ==
  /\ enemiesKilled = bossSpawnThreshold
  /\ bossSpawned
  /\ lastCall.op = "update"
  /\ Cardinality(Bosses(enemies)) = 1
  /\ \E i \in DOMAIN enemies : ~enemies[i].isAlive /\ enemies[i].wasKilledByPlayer

----------------------------------------------------------------------------
(* Specifications *)

Init == EnemyInit /\ AIInit /\ LoaderInit /\ PhysInit /\ PathInit /\ NetInit /\ LifeInit /\ ServerInit /\ CoolInit /\ AlertInit /\ SingletonInit /\ SpawnInit /\ LoopInit

\* the enemies and their manager
Next == EnemyNext

Spec == Init /\ [][Next]_vars

\* the behaviour-tree evaluation of the AISystem
SpecAI == Init /\ [][AINext]_vars

\* the initialization of the WebAssembly backend
SpecLoader == Init /\ [][LoaderNext]_vars

\* the physics calls of the WasmInterface
SpecWasmPhysics == Init /\ [][WasmPhysicsNext]_vars

\* the physics tick of the PhysicsSystem
SpecPhysics == Init /\ [][PhysicsNext]_vars

\* the pathfinding of the AISystem
SpecPath == Init /\ [][PathNext]_vars

\* removal and network messages that name an enemy
SpecRegistry == Init /\ [][RegistryNext]_vars

\* enemies that die and their death timers
SpecLife == Init /\ [][LifeNext]_vars

\* the FSM state of an enemy under ticks, damage and network updates
SpecFsm == Init /\ [][FsmNext]_vars

\* the cooldown slots of the behavior contexts
SpecCooldown == Init /\ [][CooldownNext]_vars

\* alerts among enemies spawned near and far
SpecAlert == Init /\ [][AlertNext]_vars

\* the periodic spawner
SpecSpawn == Init /\ [][SpawnNext]_vars

\* the game loop
SpecLoop == Init /\ [][LoopNext]_vars

\* the boss, from a kill count at or just below the threshold
BossInit ==
  /\ BossEnemyInit /\ AIInit /\ LoaderInit /\ PhysInit /\ PathInit /\ NetInit /\ LifeInit
  /\ ServerInit /\ CoolInit /\ AlertInit /\ SingletonInit /\ SpawnInit /\ LoopInit

SpecBoss == BossInit /\ [][BossNext]_vars

\* the multiplayer server: enemies that attack, and projectiles
SpecServerAttack == Init /\ [][ServerAttackNext]_vars
SpecServerProjectiles == Init /\ [][ServerProjectileNext]_vars

====
